---- MODULE Spec2Model ----
(***************************************************************************)
(* Verification model of seed-it's generation core:                        *)
(*   DependencyResolver  (src/src/generator/dependency-resolver.ts)        *)
(*   Deduplicator        (src/src/generator/deduplicator.ts)               *)
(*   DependencyFetcher   (src/src/generator/dependency-fetcher.ts)         *)
(*   SeederGenerator     (src/src/generator/seeder-generator.ts, the       *)
(*                        class starting at line 1264): extractInserts     *)
(*   QueryParser         (src/src/analyzer/schema-analyzer.ts)             *)
(*   AutoColumnMapper    (src/src/generator/auto-column-mapper.ts)         *)
(*   InterceptorRegistry (interceptor-registry.ts, index.ts)               *)
(*   generate command    (src/src/cli/generate-command.ts)                 *)
(* Each component has its own specification (SpecResolver, SpecDedup, ...) *)
(* over the shared variables; a specification leaves the variables of the  *)
(* other components at their idle value.                                   *)
(***************************************************************************)
EXTENDS Integers, Sequences, FiniteSets, TLC

VARIABLES pc, schemas, rowsByTable,
          graph, kahnSorted, order, circularDeps,   \* DependencyResolver
          deduplicated,                             \* Deduplicator
          db, extracted, result, toFetch, visited, issued, run,  \* DependencyFetcher
          queries, columnMappings, pool, failing, qi, emitted, enrichAt, merged,  \* SeederGenerator.extractInserts
          sortedRows,                               \* DependencyResolver.sortRows
          caseExpr, caseColumn, inferredMappings,   \* QueryParser.parseCaseExpression, AutoColumnMapper
          interceptors, capturedQueries, savedFile,  \* InterceptorRegistry and its interceptors
          dbConfigs, dbIndex, pools, poolQueries  \* generate command (generate-command.ts)

resolverVars == <<graph, kahnSorted, order, circularDeps>>
dedupVars == <<deduplicated>>
fetchVars == <<db, extracted, result, toFetch, visited, issued, run>>
extractVars == <<queries, columnMappings, pool, failing, qi, emitted, enrichAt, merged>>
sortVars == <<sortedRows>>
parseVars == <<caseExpr, caseColumn, inferredMappings>>
registryVars == <<interceptors, capturedQueries, savedFile>>
commandVars == <<dbConfigs, dbIndex, pools, poolQueries>>

vars == <<pc, schemas, rowsByTable, resolverVars, dedupVars, fetchVars, extractVars, sortVars, parseVars, registryVars, commandVars>>

\* what the operations of one component leave alone
outsideResolver == <<dedupVars, fetchVars, extractVars, sortVars, parseVars, registryVars, commandVars>>
outsideDedup == <<resolverVars, fetchVars, extractVars, sortVars, parseVars, registryVars, commandVars>>
outsideFetch == <<resolverVars, dedupVars, extractVars, sortVars, parseVars, registryVars, commandVars>>
outsideExtract == <<resolverVars, dedupVars, sortVars, parseVars, registryVars, commandVars>>
outsideSort == <<rowsByTable, resolverVars, fetchVars, extractVars, parseVars, registryVars, commandVars>>
outsideParse == <<rowsByTable, schemas, resolverVars, dedupVars, fetchVars, extractVars, sortVars, registryVars, commandVars>>
outsideRegistry == <<pc, rowsByTable, schemas, resolverVars, dedupVars, fetchVars, extractVars, sortVars, parseVars, commandVars>>
outsideCommand == <<rowsByTable, schemas, resolverVars, dedupVars, fetchVars, extractVars, sortVars, parseVars, registryVars>>

\* ------------------------------------------------------------------------
\* Bounds
\* ------------------------------------------------------------------------
NumTables == 3
MaxFks == 4
MaxRows == 3
MaxInputRows == 2
ChainLen == 12
MaxRuns == 2

\* ------------------------------------------------------------------------
\* JavaScript collections: a Set / Map keeps insertion order, so a Set is
\* modelled as a sequence without repetitions.
\* ------------------------------------------------------------------------
Range(s) == {s[i] : i \in 1..Len(s)}

Includes(s, x) == \E i \in 1..Len(s) : s[i] = x

\* Array.prototype.indexOf: 0-based position of the first occurrence, -1 when absent
IndexOf(s, x) ==
    IF Includes(s, x)
    THEN (CHOOSE i \in 1..Len(s) : s[i] = x /\ \A j \in 1..(i-1) : s[j] # x) - 1
    ELSE -1

\* Array.prototype.slice(start): a negative start counts from the end
Slice(s, start) ==
    IF start < 0
    THEN SubSeq(s, (IF Len(s) + start < 0 THEN 0 ELSE Len(s) + start) + 1, Len(s))
    ELSE SubSeq(s, start + 1, Len(s))

\* Set.prototype.add
SetAdd(s, x) == IF Includes(s, x) THEN s ELSE Append(s, x)

\* A Map: its keys in insertion order, with the value of each key
EmptyMap == [keys |-> <<>>, vals |-> <<>>]

MapHas(m, k) == Includes(m.keys, k)

MapGet(m, k) == m.vals[IndexOf(m.keys, k) + 1]

MapSet(m, k, v) ==
    IF MapHas(m, k)
    THEN [m EXCEPT !.vals[IndexOf(m.keys, k) + 1] = v]
    ELSE [keys |-> Append(m.keys, k), vals |-> Append(m.vals, v)]

\* ------------------------------------------------------------------------
\* The value of each component's variables while another component runs
\* ------------------------------------------------------------------------
NoGraph == [nodes |-> <<>>, edges |-> <<>>]

ResolverIdle ==
    /\ graph = NoGraph
    /\ kahnSorted = <<>>
    /\ order = <<>>
    /\ circularDeps = <<>>

NoRows == EmptyMap

DedupIdle == deduplicated = NoRows

FetchIdle ==
    /\ db = <<>>
    /\ extracted = NoRows
    /\ result = NoRows
    /\ toFetch = <<>>
    /\ visited = {}
    /\ issued = <<>>
    /\ run = 0

\* no statement was built: fetchQuery is still the empty string
NoStatement == [verb |-> "", columns |-> "", from |-> "", where |-> {}, limit |-> 0]

NoMerge == [table |-> "", index |-> 0, hit |-> FALSE, before |-> <<>>, fetched |-> <<>>, after |-> <<>>,
            statement |-> NoStatement]

ExtractIdle ==
    /\ queries = <<>>
    /\ columnMappings = EmptyMap
    /\ pool = FALSE
    /\ failing = <<0, 0>>
    /\ qi = 0
    /\ emitted = <<>>
    /\ enrichAt = <<0, 0>>
    /\ merged = NoMerge

SortIdle == sortedRows = <<>>

ParseIdle == caseExpr = <<>> /\ caseColumn = <<>> /\ inferredMappings = <<>>

RegistryIdle == interceptors = EmptyMap /\ capturedQueries = <<>> /\ savedFile = <<>>

CommandIdle == dbConfigs = <<>> /\ dbIndex = 0 /\ pools = <<>> /\ poolQueries = <<>>

\* the components a specification does not exercise stay as constructed
OutsideResolverIdle == DedupIdle /\ FetchIdle /\ ExtractIdle /\ SortIdle /\ ParseIdle /\ RegistryIdle /\ CommandIdle
OutsideDedupIdle == ResolverIdle /\ FetchIdle /\ ExtractIdle /\ SortIdle /\ ParseIdle /\ RegistryIdle /\ CommandIdle
OutsideFetchIdle == ResolverIdle /\ DedupIdle /\ ExtractIdle /\ SortIdle /\ ParseIdle /\ RegistryIdle /\ CommandIdle
OutsideExtractIdle == ResolverIdle /\ DedupIdle /\ SortIdle /\ ParseIdle /\ RegistryIdle /\ CommandIdle
OutsideSortIdle == rowsByTable = NoRows /\ ResolverIdle /\ FetchIdle /\ ExtractIdle /\ ParseIdle /\ RegistryIdle /\ CommandIdle
OutsideParseIdle == rowsByTable = NoRows /\ schemas = <<>> /\ ResolverIdle /\ DedupIdle /\ FetchIdle /\ ExtractIdle /\ SortIdle /\ RegistryIdle /\ CommandIdle
OutsideRegistryIdle == rowsByTable = NoRows /\ schemas = <<>> /\ ResolverIdle /\ DedupIdle /\ FetchIdle /\ ExtractIdle /\ SortIdle /\ ParseIdle /\ CommandIdle
OutsideCommandIdle == rowsByTable = NoRows /\ schemas = <<>> /\ ResolverIdle /\ DedupIdle /\ FetchIdle /\ ExtractIdle /\ SortIdle /\ ParseIdle /\ RegistryIdle

\* ------------------------------------------------------------------------
\* Table names.  ExtTable is a table that FKs may reference but that is not
\* part of the analysed schema set.
\* ------------------------------------------------------------------------
TableNames == <<"t1", "t2", "t3", "t4", "t5", "t6">>
ExtTable == "ext"
Tables == {TableNames[i] : i \in 1..NumTables}

\* ========================================================================
\* DependencyResolver
\* ========================================================================

\* buildGraph: a node per schema, an edge A -> B per FK of A referencing
\* another table B (self references skipped)
RECURSIVE AddFkEdges(_, _, _)
AddFkEdges(tableName, fks, deps) ==
    IF fks = <<>> THEN deps
    ELSE AddFkEdges(tableName, Tail(fks),
            IF Head(fks).referencedTable # tableName
            THEN SetAdd(deps, Head(fks).referencedTable)
            ELSE deps)

buildGraph(ss) ==
    [nodes |-> [i \in 1..Len(ss) |-> ss[i].tableName],
     edges |-> [t \in {ss[i].tableName : i \in 1..Len(ss)} |->
                  LET i == CHOOSE j \in 1..Len(ss) : ss[j].tableName = t
                  IN AddFkEdges(t, ss[i].foreignKeys, <<>>)]]

\* topologicalSort, lines 52-58: reverse adjacency list and in-degrees
RECURSIVE AddReverse(_, _, _)
AddReverse(node, deps, st) ==
    IF deps = <<>> THEN st
    ELSE LET dep == Head(deps) IN
         AddReverse(node, Tail(deps),
            [adjList |-> IF dep \in DOMAIN st.adjList
                         THEN [st.adjList EXCEPT ![dep] = SetAdd(@, node)]
                         ELSE st.adjList,
             inDegree |-> [st.inDegree EXCEPT ![node] = @ + 1]])

RECURSIVE BuildReverse(_, _, _)
BuildReverse(g, i, st) ==
    IF i > Len(g.nodes) THEN st
    ELSE BuildReverse(g, i + 1, AddReverse(g.nodes[i], g.edges[g.nodes[i]], st))

\* a variant: a dependent is queued each time one of its dependencies is sorted
RECURSIVE ReduceDependents_AlwaysQueue(_, _)
ReduceDependents_AlwaysQueue(dependents, st) ==
    IF dependents = <<>> THEN st
    ELSE LET d == Head(dependents)
             newDegree == st.inDegree[d] - 1
         IN ReduceDependents_AlwaysQueue(Tail(dependents),
               [inDegree |-> [st.inDegree EXCEPT ![d] = newDegree],
                queue |-> Append(st.queue, d)])

\* topologicalSort, lines 73-81: lower the in-degree of each dependent
RECURSIVE ReduceDependents(_, _)
ReduceDependents(dependents, st) ==
    IF dependents = <<>> THEN st
    ELSE LET d == Head(dependents)
             newDegree == st.inDegree[d] - 1
         IN ReduceDependents(Tail(dependents),
               [inDegree |-> [st.inDegree EXCEPT ![d] = newDegree],
                queue |-> IF newDegree = 0 THEN Append(st.queue, d) ELSE st.queue])

\* topologicalSort, lines 68-82: the queue loop
RECURSIVE KahnLoop(_, _, _, _)
KahnLoop(queue, sorted, inDegree, adjList) ==
    IF queue = <<>> THEN sorted
    ELSE LET node == Head(queue)
             st == ReduceDependents(adjList[node], [inDegree |-> inDegree, queue |-> Tail(queue)])
         IN KahnLoop(st.queue, Append(sorted, node), st.inDegree, adjList)

\* topologicalSort up to line 82: what Kahn's algorithm could order
KahnSorted(g) ==
    LET ns == Range(g.nodes)
        rev == BuildReverse(g, 1, [adjList |-> [n \in ns |-> <<>>], inDegree |-> [n \in ns |-> 0]])
        queue == SelectSeq(g.nodes, LAMBDA n : rev.inDegree[n] = 0)
    IN KahnLoop(queue, <<>>, rev.inDegree, rev.adjList)

\* a variant: the tables left over are dropped
AppendRemaining_Dropped(g, sorted) == sorted

\* topologicalSort, lines 84-94: the tables left over are added at the end
AppendRemaining(g, sorted) ==
    IF Len(sorted) # Len(g.nodes)
    THEN sorted \o SelectSeq(g.nodes, LAMBDA n : ~Includes(sorted, n))
    ELSE sorted

topologicalSort(g) == AppendRemaining(g, KahnSorted(g))

\* detectCircularDependencies: DFS with a recursion stack
RECURSIVE dfs(_, _, _, _), dfsDeps(_, _, _, _)

\* a variant: a finished node stays on the recursion stack
dfs_NoStackDelete(g, node, path, st) ==
    LET path1 == Append(path, node)
        st1 == [st EXCEPT !.visited = @ \cup {node}, !.recursionStack = @ \cup {node}]
        dependencies == IF node \in DOMAIN g.edges THEN g.edges[node] ELSE <<>>
    IN dfsDeps(g, dependencies, path1, st1)

dfs(g, node, path, st) ==
    LET path1 == Append(path, node)
        st1 == [st EXCEPT !.visited = @ \cup {node}, !.recursionStack = @ \cup {node}]
        dependencies == IF node \in DOMAIN g.edges THEN g.edges[node] ELSE <<>>
        st2 == dfsDeps(g, dependencies, path1, st1)
    IN [st2 EXCEPT !.recursionStack = @ \ {node}]

dfsDeps(g, deps, path, st) ==
    IF deps = <<>> THEN st
    ELSE LET dep == Head(deps) IN
         IF dep \notin st.visited
         THEN dfsDeps(g, Tail(deps), path, dfs(g, dep, path, st))
         ELSE IF dep \in st.recursionStack
         THEN LET cycleStart == IndexOf(path, dep)
                  cycle == Append(Slice(path, cycleStart), dep)
              IN dfsDeps(g, Tail(deps), path, [st EXCEPT !.cycles = Append(@, cycle)])
         ELSE dfsDeps(g, Tail(deps), path, st)

RECURSIVE DfsRoots(_, _, _)
DfsRoots(g, i, st) ==
    IF i > Len(g.nodes) THEN st
    ELSE DfsRoots(g, i + 1,
            IF g.nodes[i] \notin st.visited THEN dfs(g, g.nodes[i], <<>>, st) ELSE st)

detectCircularDependencies(g) ==
    DfsRoots(g, 1, [visited |-> {}, recursionStack |-> {}, cycles |-> <<>>]).cycles

\* ========================================================================
\* Deduplicator
\* ========================================================================

\* JavaScript values of a row.  A value is its type with its String()
\* rendering; a column the row does not have is undefined.
Num(s) == [t |-> "number", s |-> s]
Str(s) == [t |-> "string", s |-> s]
Null == [t |-> "null", s |-> "null"]

\* String(value)
String(v) == v.s

\* Array.prototype.join
RECURSIVE Join(_, _)
Join(strs, sep) ==
    IF strs = <<>> THEN ""
    ELSE IF Len(strs) = 1 THEN strs[1]
    ELSE strs[1] \o sep \o Join(Tail(strs), sep)

\* the column names of the model in sorted order, for Array.prototype.sort
ColumnOrder == <<"a", "b", "c">>

\* Object.keys(row).sort()
SortedKeys(row) == SelectSeq(ColumnOrder, LAMBDA c : c \in DOMAIN row)

\* crypto.createHash('sha256').update(s).digest('hex'): taken as collision
\* free, two digests are equal exactly when the hashed strings are
Sha256Hex(s) == <<"sha256", s>>

\* hashRow
hashRow(row, pkColumns) ==
    LET keyColumns == IF Len(pkColumns) > 0 THEN pkColumns ELSE SortedKeys(row)
        keyValues == [i \in 1..Len(keyColumns) |->
                        IF keyColumns[i] \notin DOMAIN row \/ row[keyColumns[i]] = Null
                        THEN "NULL"
                        ELSE String(row[keyColumns[i]])]
    IN Sha256Hex(Join(keyValues, "|"))

\* deduplicateTable: the loop over the rows with the set of hashes seen
RECURSIVE DedupLoop(_, _, _, _)
DedupLoop(rows, schema, seen, unique) ==
    IF rows = <<>> THEN unique
    ELSE LET hash == hashRow(Head(rows), schema.primaryKeys) IN
         IF hash \notin seen
         THEN DedupLoop(Tail(rows), schema, seen \cup {hash}, Append(unique, Head(rows)))
         ELSE DedupLoop(Tail(rows), schema, seen, unique)

deduplicateTable(rows, schema) == DedupLoop(rows, schema, {}, <<>>)

\* deduplicateAll: a table without schema keeps its rows as they are
deduplicateAll(rbt, ss) ==
    [keys |-> rbt.keys,
     vals |-> [n \in 1..Len(rbt.keys) |->
                 IF \E i \in 1..Len(ss) : ss[i].tableName = rbt.keys[n]
                 THEN deduplicateTable(rbt.vals[n],
                         ss[CHOOSE i \in 1..Len(ss) : ss[i].tableName = rbt.keys[n]])
                 ELSE rbt.vals[n]]]

\* ------------------------------------------------------------------------
\* The deduplicator as a state machine: rows accumulate for a table, then
\* deduplicateAll runs
\* ------------------------------------------------------------------------
DedupTable == "t1"

\* the rows of the table: column a (a key column when the table has a
\* primary key) and column b, each present or not; a row is a function
\* from its columns to their values
DedupRows ==
    LET aVals == {Num("1"), Str("1"), Num("2"), Null, Str("NULL"), Str("1|1")}
        bVals == {Str("1"), Str("1|1")}
    IN [{"a"} -> aVals] \cup [{"b"} -> bVals]
         \cup {r \in [{"a", "b"} -> aVals] : r["b"] \in bVals}

\* the table has no schema, or a schema with no, a single or a composite PK
DedupSchemas ==
    {<<>>} \cup
    {<<[tableName |-> DedupTable, primaryKeys |-> pk]>> : pk \in {<<>>, <<"a">>, <<"a", "b">>}}

InitDedup ==
    /\ pc = "extract"
    /\ schemas \in DedupSchemas
    /\ rowsByTable = MapSet(EmptyMap, DedupTable, <<>>)
    /\ deduplicated = NoRows
    /\ OutsideDedupIdle

ExtractRow(row) ==
    /\ pc = "extract"
    /\ Len(MapGet(rowsByTable, DedupTable)) < MaxRows
    /\ rowsByTable' = MapSet(rowsByTable, DedupTable, Append(MapGet(rowsByTable, DedupTable), row))
    /\ UNCHANGED <<pc, schemas, deduplicated, outsideDedup>>

DeduplicateAll ==
    /\ pc = "extract"
    /\ deduplicated' = deduplicateAll(rowsByTable, schemas)
    /\ pc' = "deduplicated"
    /\ UNCHANGED <<schemas, rowsByTable, outsideDedup>>

NextDedup ==
    \/ \E row \in DedupRows : ExtractRow(row)
    \/ DeduplicateAll

SpecDedup == InitDedup /\ [][NextDedup]_vars

\* the value a row has in a column; a missing column counts as null
ColumnValue(row, col) == IF col \in DOMAIN row THEN row[col] ELSE Null

\* two values are the same key value: both null, or both non-null with the
\* same text (the number 1 and the string '1' name the same key)
SameValue(v1, v2) ==
    \/ v1 = Null /\ v2 = Null
    \/ v1 # Null /\ v2 # Null /\ String(v1) = String(v2)

\* two rows agree on all the key columns
SameKey(r1, r2, keyColumns) ==
    \A i \in 1..Len(keyColumns) :
        SameValue(ColumnValue(r1, keyColumns[i]), ColumnValue(r2, keyColumns[i]))

\* the first row of each group of rows that agree on the key columns, in
\* the original order
RECURSIVE FirstOfGroups(_, _, _)
FirstOfGroups(rows, keyColumns, i) ==
    IF i > Len(rows) THEN <<>>
    ELSE (IF \E j \in 1..(i - 1) : SameKey(rows[j], rows[i], keyColumns)
          THEN <<>> ELSE <<rows[i]>>)
         \o FirstOfGroups(rows, keyColumns, i + 1)

HasPrimaryKey == schemas # <<>> /\ Len(schemas[1].primaryKeys) > 0

\* C4: for a table with a declared primary key, deduplicateAll keeps exactly
\* the first row of each group of rows that agree on all PK column values,
\* in the original relative order, and never returns more rows than given.
Cex_C4 ==
    (pc = "deduplicated" /\ HasPrimaryKey) =>
        /\ MapGet(deduplicated, DedupTable) =
              FirstOfGroups(MapGet(rowsByTable, DedupTable), schemas[1].primaryKeys, 1)
        /\ Len(MapGet(deduplicated, DedupTable)) <= Len(MapGet(rowsByTable, DedupTable))

\* ------------------------------------------------------------------------
\* resolveInsertionOrder as a state machine: buildGraph, topologicalSort,
\* detectCircularDependencies
\* ------------------------------------------------------------------------
\* The schema set handed to the resolver: NumTables tables declaring up to
\* MaxFks FKs in all.  The set is built one FK at a time, as the analyzer
\* reads the FKs of each table; a table's FKs keep their order and reference
\* different tables (its own name, another table, or ExtTable).
RECURSIVE TotalFks(_, _)
TotalFks(ss, i) == IF i > Len(ss) THEN 0 ELSE Len(ss[i].foreignKeys) + TotalFks(ss, i + 1)

InitResolver ==
    /\ pc = "schema"
    /\ rowsByTable = NoRows
    /\ schemas = [i \in 1..NumTables |-> [tableName |-> TableNames[i], foreignKeys |-> <<>>]]
    /\ ResolverIdle
    /\ OutsideResolverIdle

GetForeignKey(i, b) ==
    /\ pc = "schema"
    /\ TotalFks(schemas, 1) < MaxFks
    /\ \A k \in 1..Len(schemas[i].foreignKeys) : schemas[i].foreignKeys[k].referencedTable # b
    /\ schemas' = [schemas EXCEPT ![i].foreignKeys = Append(@, [referencedTable |-> b])]
    /\ UNCHANGED <<pc, rowsByTable, graph, kahnSorted, order, circularDeps, outsideResolver>>

BuildGraph ==
    /\ pc = "schema"
    /\ graph' = buildGraph(schemas)
    /\ pc' = "built"
    /\ UNCHANGED <<schemas, rowsByTable, kahnSorted, order, circularDeps, outsideResolver>>

TopologicalSort ==
    /\ pc = "built"
    /\ kahnSorted' = KahnSorted(graph)
    /\ order' = topologicalSort(graph)
    /\ pc' = "sorted"
    /\ UNCHANGED <<schemas, rowsByTable, graph, circularDeps, outsideResolver>>

DetectCircularDependencies ==
    /\ pc = "sorted"
    /\ circularDeps' = detectCircularDependencies(graph)
    /\ pc' = "resolved"
    /\ UNCHANGED <<schemas, rowsByTable, graph, kahnSorted, order, outsideResolver>>

NextResolver ==
    \/ \E i \in 1..NumTables, b \in Tables \cup {ExtTable} : GetForeignKey(i, b)
    \/ BuildGraph
    \/ TopologicalSort
    \/ DetectCircularDependencies

SpecResolver == InitResolver /\ [][NextResolver]_vars

\* ------------------------------------------------------------------------
\* The FK graph of the schema set, stated on the schemas themselves
\* ------------------------------------------------------------------------
\* table a declares an FK that references another table b
FkEdge(a, b) ==
    /\ a # b
    /\ \E i \in 1..Len(schemas) :
          /\ schemas[i].tableName = a
          /\ \E k \in 1..Len(schemas[i].foreignKeys) : schemas[i].foreignKeys[k].referencedTable = b

AllNodes == Tables \cup {ExtTable}

RECURSIVE ReachWithin(_, _)
ReachWithin(S, n) ==
    IF n = 0 THEN S
    ELSE ReachWithin(S \cup {b \in AllNodes : \E a \in S : FkEdge(a, b)}, n - 1)

\* the tables reachable from a over one or more FK edges
ReachPlus(a) == ReachWithin({b \in AllNodes : FkEdge(a, b)}, NumTables)

HasCycle == \E t \in Tables : t \in ReachPlus(t)

AllFksInSet ==
    \A i \in 1..Len(schemas) : \A k \in 1..Len(schemas[i].foreignKeys) :
        schemas[i].foreignKeys[k].referencedTable \in Tables

Sorted == pc \in {"sorted", "resolved"}

ExactlyOnce(s, S) == Len(s) = Cardinality(S) /\ Range(s) = S

\* C1: for an acyclic schema set whose FKs all reference tables of the set,
\* topologicalSort returns every table exactly once and every referenced
\* table before the table that references it.
Thm_C1 ==
    (Sorted /\ ~HasCycle /\ AllFksInSet) =>
        /\ ExactlyOnce(order, Tables)
        /\ \A a \in Tables, b \in Tables :
              FkEdge(a, b) => IndexOf(order, b) < IndexOf(order, a)

\* an acyclic set with a chain of two FK edges has been sorted
Wit_C1 ==
    /\ pc = "resolved" /\ ~HasCycle /\ AllFksInSet
    /\ \E a \in Tables, b \in Tables, c \in Tables : FkEdge(a, b) /\ FkEdge(b, c)

\* C2: topologicalSort returns every table exactly once, cycle or not, and
\* the tables Kahn's algorithm left over come after all those it ordered.
Thm_C2 ==
    Sorted =>
        /\ ExactlyOnce(order, Tables)
        /\ Len(kahnSorted) <= Len(order)
        /\ SubSeq(order, 1, Len(kahnSorted)) = kahnSorted
        /\ \A i \in (Len(kahnSorted) + 1)..Len(order) : ~Includes(kahnSorted, order[i])

\* a set with a cycle of which Kahn's algorithm ordered some tables only
Wit_C2 ==
    /\ pc = "resolved" /\ HasCycle
    /\ Len(kahnSorted) > 0 /\ Len(kahnSorted) < NumTables

\* C3: detectCircularDependencies reports something exactly when the
\* non-self FK graph has a directed cycle; each reported path is closed and
\* follows FK edges; a two-table cycle is covered by some reported path.
Thm_C3 ==
    pc = "resolved" =>
        /\ (circularDeps # <<>>) <=> HasCycle
        /\ \A n \in 1..Len(circularDeps) :
              LET path == circularDeps[n] IN
                /\ Len(path) >= 2
                /\ path[1] = path[Len(path)]
                /\ \A i \in 1..(Len(path) - 1) : FkEdge(path[i], path[i + 1])
        /\ \A x \in Tables, y \in Tables :
              (FkEdge(x, y) /\ FkEdge(y, x)) =>
                  \E n \in 1..Len(circularDeps) : {x, y} \subseteq Range(circularDeps[n])

\* a set with a two-table cycle has been analysed
Wit_C3 ==
    /\ pc = "resolved"
    /\ \E x \in Tables, y \in Tables : FkEdge(x, y) /\ FkEdge(y, x)
    /\ circularDeps # <<>>


\* ========================================================================
\* DependencyFetcher
\* ========================================================================
MaxDepth == 10

\* null; the key values of the rows are the numbers 1, 2, ...
NULL == 0

\* result.rows[0] || null when the query found nothing or failed
NoRow == <<>>

\* the schema set of the fetcher runs: orders reference a shipment and a
\* node, a shipment references a node, a node references its parent node
FetchSchemas ==
    << [tableName |-> "orders",
        foreignKeys |-> << [columnName |-> "shipment_id", referencedTable |-> "shipments", referencedColumn |-> "id"],
                           [columnName |-> "node_id", referencedTable |-> "node", referencedColumn |-> "id"] >>],
       [tableName |-> "shipments",
        foreignKeys |-> << [columnName |-> "node_id", referencedTable |-> "node", referencedColumn |-> "id"] >>],
       [tableName |-> "node",
        foreignKeys |-> << [columnName |-> "parent_id", referencedTable |-> "node", referencedColumn |-> "id"] >>] >>

\* the live database: one shipment, and ChainLen nodes each referencing the
\* next one; the last node references tail (NULL, or node 1 to close a cycle)
Database(tail) ==
    [orders |-> {},
     shipments |-> {[id |-> 1, node_id |-> 3]},
     node |-> {[id |-> i, parent_id |-> IF i < ChainLen THEN i + 1 ELSE tail] : i \in 1..ChainLen}]

\* the same database with node 4 referencing node 2: the rows 2, 3 and 4
\* reference each other in a cycle
CyclicDatabase ==
    [Database(NULL) EXCEPT
        !.node = {[id |-> i, parent_id |-> IF i = 4 THEN 2 ELSE IF i < ChainLen THEN i + 1 ELSE NULL] :
                    i \in 1..ChainLen}]

\* the rows extracted from the captured queries, before any dependency fetch
FetchInputRows ==
    [orders |-> {[id |-> 1, shipment_id |-> sh, node_id |-> n] : sh \in {NULL, 1}, n \in {NULL, 2}},
     shipments |-> {[id |-> 1, node_id |-> n] : n \in {NULL, 3}},
     node |-> {[id |-> i, parent_id |-> i + 1] : i \in 1..2}]

\* schemas.find(s => s.tableName === table): 0 when there is none
FindSchema(ss, table) ==
    IF \E i \in 1..Len(ss) : ss[i].tableName = table
    THEN CHOOSE i \in 1..Len(ss) : ss[i].tableName = table /\ \A j \in 1..(i - 1) : ss[j].tableName # table
    ELSE 0

\* `${fk.referencedTable}:${fk.referencedColumn}:${fkValue}`
refKey(fk, fkValue) ==
    fk.referencedTable \o ":" \o fk.referencedColumn \o ":" \o ToString(fkValue)

\* fetchRow, line 120: `SELECT * FROM ${table} WHERE ${column} = $1 LIMIT 1`
fetchRowQuery(table, column) ==
    [verb |-> "SELECT", columns |-> "*", from |-> table, where |-> {column}, limit |-> 1]

\* fetchRow: SELECT * FROM table WHERE column = $1 LIMIT 1; answered is
\* FALSE when the query fails; null when it fails or finds no row
fetchRow(database, table, column, value, answered) ==
    LET rows == IF table \in DOMAIN database
                THEN {r \in database[table] : column \in DOMAIN r /\ r[column] = value}
                ELSE {}
    IN IF answered /\ rows # {} THEN CHOOSE r \in rows : TRUE ELSE NoRow

\* fetchDependencies, lines 54-106: the loop over the FKs of one row.
\* st holds visited, result, the caller's rowsByTable (whose row lists
\* result shares), toFetch and the SELECTs issued in this run.
\* a variant of pushToFetch that does not queue the fetched row, so that its
\* own foreign keys are never examined
pushToFetch_Dropped(queue, table, row, depth) == queue

\* fetchDependencies, lines 98-103: the fetched row is queued one level deeper
pushToFetch(queue, table, row, depth) ==
    Append(queue, [table |-> table, row |-> row, depth |-> depth + 1])

RECURSIVE ExamineFks(_, _, _, _, _, _)
ExamineFks(row, depth, fks, i, answered, st) ==
    IF i > Len(fks) THEN st
    ELSE
      LET fk == fks[i]
          fkValue == IF fk.columnName \in DOMAIN row THEN row[fk.columnName] ELSE NULL
          key == refKey(fk, fkValue)
      IN
      IF fkValue = NULL THEN ExamineFks(row, depth, fks, i + 1, answered, st)
      ELSE IF key \in st.visited THEN ExamineFks(row, depth, fks, i + 1, answered, st)
      ELSE
        LET st1 == [st EXCEPT !.visited = @ \cup {key}]
            existingRows == IF MapHas(st.result, fk.referencedTable)
                            THEN MapGet(st.result, fk.referencedTable) ELSE <<>>
            exists == \E n \in 1..Len(existingRows) :
                        /\ fk.referencedColumn \in DOMAIN existingRows[n]
                        /\ existingRows[n][fk.referencedColumn] = fkValue
        IN
        IF exists THEN ExamineFks(row, depth, fks, i + 1, answered, st1)
        ELSE
          LET fetchedRow == fetchRow(st.db, fk.referencedTable, fk.referencedColumn, fkValue, answered[i])
              st2 == [st1 EXCEPT !.issued = Append(@,
                         [table |-> fk.referencedTable, column |-> fk.referencedColumn,
                          value |-> fkValue, depth |-> depth + 1, row |-> fetchedRow,
                          statement |-> fetchRowQuery(fk.referencedTable, fk.referencedColumn)])]
          IN
          IF fetchedRow # NoRow
          THEN ExamineFks(row, depth, fks, i + 1, answered,
                 [st2 EXCEPT
                    !.result = MapSet(@, fk.referencedTable, Append(existingRows, fetchedRow)),
                    !.rowsByTable = IF MapHas(@, fk.referencedTable)
                                    THEN MapSet(@, fk.referencedTable, Append(existingRows, fetchedRow))
                                    ELSE @,
                    !.toFetch = pushToFetch(@, fk.referencedTable, fetchedRow, depth)])
          ELSE ExamineFks(row, depth, fks, i + 1, answered, st2)

\* fetchDependencies, lines 32-37: the queue starts with every known row
RECURSIVE InitialQueue(_, _)
InitialQueue(rbt, n) ==
    IF n > Len(rbt.keys) THEN <<>>
    ELSE [k \in 1..Len(rbt.vals[n]) |-> [table |-> rbt.keys[n], row |-> rbt.vals[n][k], depth |-> 0]]
         \o InitialQueue(rbt, n + 1)

RECURSIVE TotalRows(_, _)
TotalRows(rbt, n) == IF n > Len(rbt.vals) THEN 0 ELSE Len(rbt.vals[n]) + TotalRows(rbt, n + 1)

\* ------------------------------------------------------------------------
\* The fetcher as a state machine.  The DependencyFetcher is constructed with
\* an empty visited set; rows are extracted; fetchDependencies runs, and may
\* run again on the same instance for the same extracted rows.
\* ------------------------------------------------------------------------
InitFetch ==
    /\ pc = "extract"
    /\ schemas = FetchSchemas
    /\ db \in {Database(tail) : tail \in {NULL, 1}} \cup {CyclicDatabase}
    /\ extracted = EmptyMap
    /\ rowsByTable = EmptyMap
    /\ result = EmptyMap
    /\ toFetch = <<>>
    /\ visited = {}
    /\ issued = <<>>
    /\ run = 0
    /\ OutsideFetchIdle

ExtractInputRow(table, row) ==
    /\ pc = "extract"
    /\ TotalRows(extracted, 1) < MaxInputRows
    /\ extracted' = MapSet(extracted, table,
                        Append(IF MapHas(extracted, table) THEN MapGet(extracted, table) ELSE <<>>, row))
    /\ UNCHANGED <<pc, schemas, rowsByTable, db, result, toFetch, visited, issued, run, outsideFetch>>

\* fetchDependencies is called, lines 29-37
FetchDependencies ==
    /\ pc \in {"extract", "returned"}
    /\ run < MaxRuns
    /\ run' = run + 1
    /\ rowsByTable' = extracted
    /\ result' = extracted
    /\ toFetch' = InitialQueue(extracted, 1)
    /\ issued' = <<>>
    /\ pc' = "fetching"
    /\ UNCHANGED <<schemas, db, extracted, visited, outsideFetch>>

\* a variant of depthExceeded without the cap
depthExceeded_Never(depth) == FALSE

\* line 43: depth >= this.maxDepth
depthExceeded(depth) == depth >= MaxDepth

\* a variant of shift that leaves the item at the head of the queue
shift_Peek(queue) == queue

\* line 41, toFetch.shift(): the queue without its head
shift(queue) == Tail(queue)

\* one turn of the while loop, lines 40-107, on the fetcher state st
processQueueItem(st, answered) ==
    LET item == Head(st.toFetch)
        si == FindSchema(schemas, item.table)
        shifted == [st EXCEPT !.toFetch = shift(@)]
    IN IF depthExceeded(item.depth) \/ si = 0
       THEN shifted
       ELSE ExamineFks(item.row, item.depth, schemas[si].foreignKeys, 1, answered, shifted)

ProcessQueueItem(answered) ==
    /\ pc = "fetching"
    /\ toFetch # <<>>
    /\ LET st == processQueueItem(
                   [visited |-> visited, result |-> result, rowsByTable |-> rowsByTable,
                    toFetch |-> toFetch, issued |-> issued, db |-> db], answered)
       IN /\ visited' = st.visited
          /\ result' = st.result
          /\ rowsByTable' = st.rowsByTable
          /\ toFetch' = st.toFetch
          /\ issued' = st.issued
    /\ UNCHANGED <<pc, schemas, db, extracted, run, outsideFetch>>

\* the queue is empty, line 110
ReturnResult ==
    /\ pc = "fetching"
    /\ toFetch = <<>>
    /\ pc' = "returned"
    /\ UNCHANGED <<schemas, rowsByTable, db, extracted, result, toFetch, visited, issued, run, outsideFetch>>

NextFetch ==
    \/ \E table \in DOMAIN FetchInputRows : \E row \in FetchInputRows[table] : ExtractInputRow(table, row)
    \/ FetchDependencies
    \/ \E answered \in [1..2 -> BOOLEAN] : ProcessQueueItem(answered)
    \/ ReturnResult

SpecFetch == InitFetch /\ [][NextFetch]_vars

\* ------------------------------------------------------------------------
\* Statements about one fetchDependencies run
\* ------------------------------------------------------------------------
RowsOf(rbt, table) == IF MapHas(rbt, table) THEN MapGet(rbt, table) ELSE <<>>

\* the positions of the rows of a list that hold value in column
Holding(rows, column, value) ==
    {n \in 1..Len(rows) : column \in DOMAIN rows[n] /\ rows[n][column] = value}

\* the SELECTs issued in this run for the triple (table, column, value)
IssuedFor(table, column, value) ==
    {n \in 1..Len(issued) :
        issued[n].table = table /\ issued[n].column = column /\ issued[n].value = value}

\* the references of the extracted rows: <<table, position, FK>> with a
\* non-null FK value
ExtractedRefs ==
    {ref \in UNION {{<<extracted.keys[t], k, fk>> :
                        k \in 1..Len(extracted.vals[t]),
                        fk \in (IF FindSchema(schemas, extracted.keys[t]) = 0 THEN {}
                                ELSE Range(schemas[FindSchema(schemas, extracted.keys[t])].foreignKeys))} :
                    t \in 1..Len(extracted.keys)} :
        LET row == MapGet(extracted, ref[1])[ref[2]] IN
          ref[3].columnName \in DOMAIN row /\ row[ref[3].columnName] # NULL}

RefValue(ref) == MapGet(extracted, ref[1])[ref[2]][ref[3].columnName]

SameTarget(r1, r2) ==
    /\ r1[3].referencedTable = r2[3].referencedTable
    /\ r1[3].referencedColumn = r2[3].referencedColumn
    /\ RefValue(r1) = RefValue(r2)

\* C5: in one fetchDependencies run at most one SELECT is issued per
\* (referencedTable, referencedColumn, value); none is issued for a triple
\* whose table already holds a row with that value; and a single referencing
\* row whose target is missing triggers exactly one fetch, the fetched row
\* being enqueued at depth 1.
Cex_C5 ==
    /\ \A n \in 1..Len(issued) :
          /\ Cardinality(IssuedFor(issued[n].table, issued[n].column, issued[n].value)) = 1
          /\ Cardinality(Holding(RowsOf(result, issued[n].table), issued[n].column, issued[n].value))
                = IF issued[n].row = NoRow THEN 0 ELSE 1
    /\ pc = "returned" =>
          \A ref \in ExtractedRefs :
              ( /\ \A other \in ExtractedRefs : SameTarget(ref, other) => other = ref
                /\ Holding(RowsOf(extracted, ref[3].referencedTable),
                           ref[3].referencedColumn, RefValue(ref)) = {} )
              => \E n \in 1..Len(issued) :
                    /\ IssuedFor(ref[3].referencedTable, ref[3].referencedColumn, RefValue(ref)) = {n}
                    /\ issued[n].depth = 1

\* the same statement for the first run of a fresh DependencyFetcher
C5_FirstRun == run = 1 => Cex_C5

\* <<table, row>> for every row of a row map
RowsIn(rbt) ==
    UNION {{<<rbt.keys[t], rbt.vals[t][k]>> : k \in 1..Len(rbt.vals[t])} : t \in 1..Len(rbt.keys)}

FksOf(table) ==
    IF FindSchema(schemas, table) = 0 THEN {}
    ELSE Range(schemas[FindSchema(schemas, table)].foreignKeys)

\* the rows of the database that row tr references through fk
Target(tr, fk) ==
    IF fk.columnName \in DOMAIN tr[2] /\ tr[2][fk.columnName] # NULL
    THEN {<<fk.referencedTable, r>> :
            r \in {x \in db[fk.referencedTable] : x[fk.referencedColumn] = tr[2][fk.columnName]}}
    ELSE {}

\* the rows of the database that the rows of S reference
Referenced(S) == UNION {UNION {Target(tr, fk) : fk \in FksOf(tr[1])} : tr \in S}

\* the rows within k references of the extracted rows
RECURSIVE WithinHops(_)
WithinHops(k) ==
    IF k = 0 THEN RowsIn(extracted)
    ELSE LET S == WithinHops(k - 1) IN S \cup Referenced(S)

\* no reference chain from an extracted row is longer than MaxDepth hops
ChainsWithinMaxDepth == WithinHops(MaxDepth + 1) = WithinHops(MaxDepth)

\* every SELECT of the run returned a row
EveryFetchSucceeded == \A n \in 1..Len(issued) : issued[n].row # NoRow

ClosedUnderForeignKeys(rbt) ==
    \A tr \in RowsIn(rbt) : \A fk \in FksOf(tr[1]) :
        (fk.columnName \in DOMAIN tr[2] /\ tr[2][fk.columnName] # NULL)
        => Holding(RowsOf(rbt, fk.referencedTable), fk.referencedColumn, tr[2][fk.columnName]) # {}

\* C6: when fetchDependencies returns on a fresh DependencyFetcher, every
\* non-null foreign key value of every row of the result is matched by a row
\* of the referenced table's list in the result, provided the database holds
\* every referenced row, every fetch succeeded and no reference chain is
\* longer than 10 hops.
Thm_C6 ==
    (pc = "returned" /\ run = 1 /\ EveryFetchSucceeded /\ ChainsWithinMaxDepth)
    => ClosedUnderForeignKeys(result)

\* a run that followed a chain of exactly MaxDepth references and closed it
Wit_C6 ==
    /\ pc = "returned" /\ run = 1 /\ EveryFetchSucceeded /\ ChainsWithinMaxDepth
    /\ \E n \in 1..Len(issued) : issued[n].depth = MaxDepth
    /\ ClosedUnderForeignKeys(result)

\* ------------------------------------------------------------------------
\* SeederGenerator.extractInserts  (seeder-generator.ts, lines 1275-1500)
\* ------------------------------------------------------------------------
MaxQueries == 2

\* A JavaScript value of a result row is an integer: NULL is null, n > 0 is
\* the scalar n, and -k is the k-th array of ArrayValues.  A column that is
\* undefined is absent from the row's DOMAIN.
ArrayValues == << <<1, 2>>, <<>>, <<3>> >>

isArray(v) == v < 0

Elements(v) == ArrayValues[0 - v]

\* {...target, ...source} and Object.assign(target, source)
Assign(target, source) ==
    [c \in DOMAIN target \cup DOMAIN source |->
        IF c \in DOMAIN source THEN source[c] ELSE target[c]]

\* map.get(table)!.push(...rows), after map.set(table, []) when the key is new
PushAll(map, table, rows) ==
    MapSet(map, table, (IF MapHas(map, table) THEN MapGet(map, table) ELSE <<>>) \o rows)

\* the live schema: users(id PK, name, email) and refs(ref_id unique, user_id -> users.id)
ExtractSchemas ==
    << [tableName |-> "users", columns |-> <<"id", "name", "email">>,
        primaryKeys |-> <<"id">>, indexes |-> <<>>, foreignKeys |-> <<>>],
       [tableName |-> "refs", columns |-> <<"ref_id", "user_id">>,
        primaryKeys |-> <<>>,
        indexes |-> << [isUnique |-> FALSE, columns |-> <<"user_id">>],
                       [isUnique |-> TRUE, columns |-> <<"ref_id">>] >>,
        foreignKeys |-> << [columnName |-> "user_id", referencedTable |-> "users",
                            referencedColumn |-> "id"] >>] >>

\* the name of a common table expression: it is no table of the live schema
CteName == "recent"

\* the rows of the live database
LiveDatabase ==
    [users |-> {[id |-> 1, name |-> 10, email |-> 20], [id |-> 2, name |-> 11, email |-> 21]},
     refs |-> {[ref_id |-> 1, user_id |-> 1], [ref_id |-> 2, user_id |-> 1],
               [ref_id |-> 3, user_id |-> 2]}]

\* a ColumnMapping; siblings and parentLookups list their entries in key order
Mapping(table, column, type, siblings, parentLookups) ==
    [table |-> table, column |-> column, type |-> type,
     siblings |-> siblings, parentLookups |-> parentLookups]

\* what AutoColumnMapper.inferMappings returns for
\*   SELECT u.id, array_agg(r.ref_id) AS ref_ids ... FROM users u JOIN <table> r ON r.user_id = u.id
\* the target is the joined table as written in the query, a CTE name included
InferredRefIds(table) ==
    MapSet(EmptyMap, "ref_ids",
           Mapping(table, "ref_id", "array", << <<"id", "user_id">> >>, <<>>))

\* the columnMappings argument of extractInserts
ManualMappings ==
    { EmptyMap,
      MapSet(EmptyMap, "last_ref",
             Mapping("refs", "ref_id", "", << <<"id", "user_id">> >>, <<>>)),
      MapSet(EmptyMap, "ref_ids",
             Mapping("refs", "ref_id", "array", <<>>, << <<"user_id", "id">> >>)),
      MapSet(EmptyMap, "ref_ids_THEN",
             Mapping("refs", "ref_id", "array", << <<"id", "user_id">> >>, <<>>)) }

\* a captured query with the QueryParser's view of it (parseOk FALSE: parse
\* returned null and fallbackTable is what extractTableName finds)
Query(verb, parseOk, referencedTables, joins, paramMappings, fallbackTable, params, rows, inferred) ==
    [verb |-> verb, parseOk |-> parseOk, referencedTables |-> referencedTables,
     fromTable |-> [tableName |-> "users", alias |-> "u"], joins |-> joins,
     paramMappings |-> paramMappings, fallbackTable |-> fallbackTable,
     params |-> params, rows |-> rows, inferred |-> inferred]

\* AutoColumnMapper.buildAliasMap, lines 400-418: every alias and every table
\* name of FROM and JOIN maps to its table name
buildAliasMap(query) ==
    LET RECURSIVE Joins(_, _)
        Joins(map, n) ==
            IF n > Len(query.joins) THEN map
            ELSE Joins(MapSet(IF query.joins[n].alias # ""
                              THEN MapSet(map, query.joins[n].alias, query.joins[n].tableName)
                              ELSE map,
                              query.joins[n].tableName, query.joins[n].tableName), n + 1)
    IN Joins(MapSet(IF query.fromTable.alias # ""
                    THEN MapSet(EmptyMap, query.fromTable.alias, query.fromTable.tableName)
                    ELSE EmptyMap,
                    query.fromTable.tableName, query.fromTable.tableName), 1)

\* AutoColumnMapper.extractSiblingsFromParams, lines 297-325: an entry
\* siblings[mapping.column] = paramValue for every parameter bound on
\* targetTable.  processColumnMappings later reads an entry as
\* <<result column, String(table column)>>, so the value is kept as the
\* string it is used as.
RECURSIVE extractSiblingsFromParams(_, _, _, _)
extractSiblingsFromParams(query, targetTable, n, siblings) ==
    IF n > Len(query.paramMappings) THEN siblings
    ELSE LET mapping == query.paramMappings[n]
             mappingTable == IF mapping.table # "" /\ MapHas(buildAliasMap(query), mapping.table)
                             THEN MapGet(buildAliasMap(query), mapping.table)
                             ELSE mapping.table
         IN IF mappingTable = targetTable /\ mapping.paramIndex > 0
               /\ mapping.paramIndex <= Len(query.params)
            THEN extractSiblingsFromParams(query, targetTable, n + 1,
                    MapSet(siblings, mapping.column, ToString(query.params[mapping.paramIndex])))
            ELSE extractSiblingsFromParams(query, targetTable, n + 1, siblings)

\* the entries of a siblings object, in key order
Entries(map) == [n \in 1..Len(map.keys) |-> <<map.keys[n], map.vals[n]>>]

\* AutoColumnMapper.inferMappings, lines 209-260, for the CASE column ref_ids of
\*   CASE WHEN ... THEN (SELECT array_agg(ref_id) FROM refs WHERE refs.user_id = $k)
\*        ELSE array_agg(r.ref_id) END AS ref_ids
\* one mapping per branch, under the keys ref_ids_THEN and ref_ids_ELSE
InferredCaseRefIds(query) ==
    MapSet(MapSet(EmptyMap, "ref_ids" \o "_" \o "THEN",
                  Mapping("refs", "ref_id", "array",
                          Entries(extractSiblingsFromParams(query, "refs", 1, EmptyMap)), <<>>)),
           "ref_ids" \o "_" \o "ELSE",
           Mapping("refs", "ref_id", "array", << <<"id", "user_id">> >>, <<>>))

\* SELECT u.id, CASE WHEN u.id = $1
\*                   THEN (SELECT array_agg(ref_id) FROM refs WHERE refs.user_id = $2)
\*                   ELSE array_agg(r.ref_id) END AS ref_ids
\*   FROM users u LEFT JOIN refs r ON r.user_id = u.id GROUP BY u.id
CaseQuery ==
    LET query == Query("SELECT", TRUE, <<"users", "refs">>, << [tableName |-> "refs", alias |-> "r"] >>,
                       << [table |-> "u", column |-> "id", operator |-> "=", paramIndex |-> 1],
                          [table |-> "refs", column |-> "user_id", operator |-> "=", paramIndex |-> 2] >>,
                       "", <<1, 1>>, << [id |-> 1, ref_ids |-> -1] >>, EmptyMap)
    IN [query EXCEPT !.inferred = InferredCaseRefIds(query)]

CapturedQueries ==
    { CaseQuery,
      \* SELECT u.id, upper(u.name) AS name FROM users u WHERE u.id = $1 AND email = $2
      Query("SELECT", TRUE, <<"users">>, <<>>,
            << [table |-> "u", column |-> "id", operator |-> "=", paramIndex |-> 1],
               [table |-> "", column |-> "email", operator |-> "=", paramIndex |-> 2] >>,
            "", <<1, 20>>, << [id |-> 1, name |-> 12] >>, EmptyMap),
      \* SELECT u.id, u.name, array_agg(r.ref_id) AS ref_ids, max(r.ref_id) AS last_ref
      \*   FROM users u LEFT JOIN refs r ON r.user_id = u.id WHERE u.id < $1 GROUP BY u.id
      Query("SELECT", TRUE, <<"users", "refs">>, << [tableName |-> "refs", alias |-> "r"] >>,
            << [table |-> "u", column |-> "id", operator |-> "<", paramIndex |-> 1] >>,
            "", <<3>>,
            << [id |-> 1, name |-> 12, ref_ids |-> -1, last_ref |-> 2],
               [id |-> 2, name |-> 11, ref_ids |-> 0, last_ref |-> 0] >>,
            InferredRefIds("refs")),
      \* WITH recent AS (SELECT * FROM refs ...)
      \*   SELECT u.id, array_agg(r.ref_id) AS ref_ids FROM users u JOIN recent r ON r.user_id = u.id GROUP BY u.id
      Query("WITH", TRUE, <<"users", CteName>>, << [tableName |-> CteName, alias |-> "r"] >>,
            <<>>, "", <<>>, << [id |-> 2, ref_ids |-> -3] >>, InferredRefIds(CteName)),
      \* a SELECT the parser gives up on; the regex finds "users"
      Query("SELECT", FALSE, <<>>, <<>>, <<>>, "users", <<>>, << [name |-> 11] >>, EmptyMap),
      \* WITH recent AS (...) SELECT * FROM recent, not parsed; the regex finds the CTE name
      Query("WITH", FALSE, <<>>, <<>>, <<>>, CteName, <<>>,
            << [ref_id |-> 3, user_id |-> 2] >>, EmptyMap),
      \* SELECT * FROM ONLY refs ..., not parsed; the regex finds "refs"
      Query("SELECT", FALSE, <<>>, <<>>, <<>>, "refs", <<>>,
            << [ref_id |-> 3, user_id |-> 2], [ref_id |-> NULL, user_id |-> 1] >>, EmptyMap),
      \* a statement that is neither INSERT, SELECT nor WITH
      Query("UPDATE", FALSE, <<>>, <<>>, <<>>, "", <<7>>, <<>>, EmptyMap) }

\* the output column names of the captured queries
OutputColumns == {"id", "name", "ref_ids", "last_ref", "ref_id", "user_id"}

\* lines 1306-1324: the candidate tables of a query, those absent from the
\* live schema removed
RECURSIVE AddAll(_, _, _)
AddAll(set, items, n) ==
    IF n > Len(items) THEN set ELSE AddAll(SetAdd(set, items[n]), items, n + 1)

identifiedTables(query) ==
    LET identified == IF query.parseOk THEN AddAll(<<>>, query.referencedTables, 1)
                      ELSE IF query.fallbackTable # "" THEN <<query.fallbackTable>>
                      ELSE <<>>
    IN SelectSeq(identified, LAMBDA table : FindSchema(schemas, table) # 0)

\* lines 1333-1343
aliasMap(query) ==
    LET RECURSIVE Joins(_, _)
        Joins(map, n) ==
            IF n > Len(query.joins) THEN map
            ELSE Joins(IF query.joins[n].alias # ""
                       THEN MapSet(map, query.joins[n].alias, query.joins[n].tableName)
                       ELSE map, n + 1)
    IN Joins(IF query.fromTable.alias # ""
             THEN MapSet(EmptyMap, query.fromTable.alias, query.fromTable.tableName)
             ELSE EmptyMap, 1)

\* the same without the test of the operator
RECURSIVE inferredValues_AnyOperator(_, _, _)
inferredValues_AnyOperator(query, n, acc) ==
    IF ~query.parseOk \/ n > Len(query.paramMappings) THEN acc
    ELSE LET mapping == query.paramMappings[n]
             named == IF mapping.table # "" THEN mapping.table ELSE query.fromTable.tableName
             tableName == IF MapHas(aliasMap(query), named)
                          THEN MapGet(aliasMap(query), named) ELSE named
         IN IF mapping.paramIndex > 0
               /\ mapping.paramIndex <= Len(query.params) /\ tableName # ""
            THEN inferredValues_AnyOperator(query, n + 1,
                    MapSet(acc, tableName,
                           Assign(IF MapHas(acc, tableName) THEN MapGet(acc, tableName) ELSE <<>>,
                                  mapping.column :> query.params[mapping.paramIndex])))
            ELSE inferredValues_AnyOperator(query, n + 1, acc)

\* lines 1329-1363: per table, the values bound by "column = $k" conditions
RECURSIVE inferredValues(_, _, _)
inferredValues(query, n, acc) ==
    IF ~query.parseOk \/ n > Len(query.paramMappings) THEN acc
    ELSE LET mapping == query.paramMappings[n]
             named == IF mapping.table # "" THEN mapping.table ELSE query.fromTable.tableName
             tableName == IF MapHas(aliasMap(query), named)
                          THEN MapGet(aliasMap(query), named) ELSE named
         IN IF mapping.operator = "=" /\ mapping.paramIndex > 0
               /\ mapping.paramIndex <= Len(query.params) /\ tableName # ""
            THEN inferredValues(query, n + 1,
                    MapSet(acc, tableName,
                           Assign(IF MapHas(acc, tableName) THEN MapGet(acc, tableName) ELSE <<>>,
                                  mapping.column :> query.params[mapping.paramIndex])))
            ELSE inferredValues(query, n + 1, acc)

\* lines 1365-1395: a copy of every result row for every candidate table,
\* with the table's inferred values applied
RECURSIVE plainRows(_, _, _, _)
plainRows(query, tables, n, acc) ==
    IF n > Len(tables) THEN acc
    ELSE LET table == tables[n]
             inferred == inferredValues(query, 1, EmptyMap)
         IN IF Len(query.rows) > 0
            THEN plainRows(query, tables, n + 1,
                    PushAll(acc, table,
                        [k \in 1..Len(query.rows) |->
                            IF MapHas(inferred, table)
                            THEN Assign(query.rows[k], MapGet(inferred, table))
                            ELSE query.rows[k]]))
            ELSE IF MapHas(inferred, table) /\ DOMAIN MapGet(inferred, table) # {}
            THEN plainRows(query, tables, n + 1, PushAll(acc, table, <<MapGet(inferred, table)>>))
            ELSE plainRows(query, tables, n + 1, acc)

\* line 1704: resultColumn.replace(/_(?:THEN|ELSE)$/, '')
baseColumn(resultColumn) ==
    IF \E c \in OutputColumns : resultColumn \in {c \o "_THEN", c \o "_ELSE"}
    THEN CHOOSE c \in OutputColumns : resultColumn \in {c \o "_THEN", c \o "_ELSE"}
    ELSE resultColumn

\* lines 1729-1734 and 1762-1767
RECURSIVE addSiblings(_, _, _, _)
addSiblings(newRow, row, siblings, n) ==
    IF n > Len(siblings) THEN newRow
    ELSE addSiblings(IF siblings[n][1] \in DOMAIN row
                     THEN Assign(newRow, siblings[n][2] :> row[siblings[n][1]])
                     ELSE newRow,
                     row, siblings, n + 1)

\* lines 1724-1751 and 1757-1772: the fragment built for one value
newRow(row, mapping, value) ==
    LET withSiblings == addSiblings(mapping.column :> value, row, mapping.siblings, 1)
    IN IF Len(mapping.parentLookups) > 0
       THEN Assign(withSiblings,
                   ("__parentLookups" :> mapping.parentLookups) @@ ("__parentData" :> row))
       ELSE withSiblings

\* a variant of unrollArray that keeps the array in one fragment
unrollArray_NotUnrolled(row, mapping, value) == <<newRow(row, mapping, value)>>

\* lines 1721-1754: one fragment per array element
unrollArray(row, mapping, value) ==
    [n \in 1..Len(Elements(value)) |-> newRow(row, mapping, Elements(value)[n])]

\* lines 1699-1777, for the result rows from r on and the mappings from k on;
\* acc.map is the method's rowsByTable and acc.pushed the list of its pushes
RECURSIVE processColumnMappings(_, _, _, _, _)
processColumnMappings(rows, mappings, r, k, acc) ==
    IF r > Len(rows) THEN acc
    ELSE IF k > Len(mappings.keys) THEN processColumnMappings(rows, mappings, r + 1, 1, acc)
    ELSE
      LET resultColumn == mappings.keys[k]
          mapping == mappings.vals[k]
          row == rows[r]
      IN
      IF baseColumn(resultColumn) \notin DOMAIN row \/ row[baseColumn(resultColumn)] = NULL
      THEN processColumnMappings(rows, mappings, r, k + 1, acc)
      ELSE
        LET value == row[baseColumn(resultColumn)]
            newRows == IF mapping.type = "array" /\ isArray(value)
                       THEN unrollArray(row, mapping, value)
                       ELSE <<newRow(row, mapping, value)>>
        IN processColumnMappings(rows, mappings, r, k + 1,
              [map |-> PushAll(acc.map, mapping.table, newRows),
               pushed |-> acc.pushed \o
                          [n \in 1..Len(newRows) |->
                              [row |-> r, resultColumn |-> resultColumn,
                               table |-> mapping.table, fragment |-> newRows[n]]]])

\* lines 1399-1408: { ...inferredMappings, ...columnMappings }
RECURSIVE SpreadInto(_, _, _)
SpreadInto(map, source, n) ==
    IF n > Len(source.keys) THEN map
    ELSE SpreadInto(MapSet(map, source.keys[n], source.vals[n]), source, n + 1)

effectiveMappings(query) == SpreadInto(query.inferred, columnMappings, 1)

\* lines 1412-1415 and 1420-1423: push every list of source onto target
RECURSIVE MergeLists(_, _, _)
MergeLists(target, source, n) ==
    IF n > Len(source.keys) THEN target
    ELSE MergeLists(PushAll(target, source.keys[n], source.vals[n]), source, n + 1)

\* the result of processColumnMappings for a query (lines 1410-1411)
mappedRows(query) ==
    processColumnMappings(query.rows, effectiveMappings(query), 1, 1,
                          [map |-> EmptyMap, pushed |-> <<>>])

\* lines 1288-1430: the body of the loop over the queries
extractedForQuery(query) ==
    IF query.verb \notin {"INSERT", "SELECT", "WITH"} THEN EmptyMap
    ELSE MergeLists(plainRows(query, identifiedTables(query), 1, EmptyMap),
                    mappedRows(query).map, 1)

\* ------------------------------------------------------------------------
\* enrichRowsWithCompleteData, lines 1508-1615
\* ------------------------------------------------------------------------
\* row[col] !== undefined for every column of cols
HasAll(row, cols) == \A n \in 1..Len(cols) : cols[n] \in DOMAIN row

\* a variant of firstUsableIndex that also takes an index that is not unique
firstUsableIndex_AnyIndex(schema, row) ==
    LET usable == {n \in 1..Len(schema.indexes) :
                      /\ Len(schema.indexes[n].columns) > 0
                      /\ HasAll(row, schema.indexes[n].columns)}
    IN IF usable = {} THEN 0 ELSE CHOOSE n \in usable : \A m \in usable : n <= m

\* lines 1549-1570: the first unique index whose columns the row all has, 0 for none
firstUsableIndex(schema, row) ==
    LET usable == {n \in 1..Len(schema.indexes) :
                      /\ schema.indexes[n].isUnique
                      /\ Len(schema.indexes[n].columns) > 0
                      /\ HasAll(row, schema.indexes[n].columns)}
    IN IF usable = {} THEN 0 ELSE CHOOSE n \in usable : \A m \in usable : n <= m

\* lines 1524-1590: the columns of the WHERE clause, {} when no query is built
lookupColumns(schema, row) ==
    IF Len(schema.primaryKeys) > 0 /\ HasAll(row, schema.primaryKeys)
    THEN Range(schema.primaryKeys)
    ELSE IF firstUsableIndex(schema, row) # 0
    THEN Range(schema.indexes[firstUsableIndex(schema, row)].columns)
    ELSE {c \in DOMAIN row \cap Range(schema.columns) : row[c] # NULL}

\* a variant of fetchQuery that writes the looked-up columns back
fetchQuery_Update(table, cols) ==
    IF cols = {} THEN NoStatement
    ELSE [verb |-> "UPDATE", columns |-> "*", from |-> table, where |-> cols, limit |-> 0]

\* lines 1545, 1565, 1586: `SELECT * FROM ${table} WHERE ${conditions} LIMIT 1`,
\* left empty when no key was found
fetchQuery(table, cols) ==
    IF cols = {} THEN NoStatement
    ELSE [verb |-> "SELECT", columns |-> "*", from |-> table, where |-> cols, limit |-> 1]

\* the rows that SELECT * FROM table WHERE c1 = $1 AND ... matches; a
\* comparison with NULL matches nothing, a missing relation is an error
queryRows(database, table, cols, row) ==
    IF table \notin DOMAIN database THEN {}
    ELSE {r \in database[table] : \A c \in cols : c \in DOMAIN r /\ row[c] # NULL /\ r[c] = row[c]}

\* a variant of mergeRows that keeps the fragment as it was
mergeRows_FragmentKept(row, fetched) == row

\* line 1598: rows[i] = { ...row, ...result.rows[0] }
mergeRows(row, fetched) == Assign(row, fetched)

\* a variant of enrichedRow that empties a fragment whose lookup found nothing
enrichedRow_MissEmpties(row, answer) ==
    IF answer = NoRow THEN [c \in {} |-> NULL] ELSE mergeRows(row, answer)

\* lines 1593-1608: the fragment after its lookup; a lookup that failed or
\* found nothing leaves it alone
enrichedRow(row, answer) ==
    IF answer = NoRow THEN row ELSE mergeRows(row, answer)

\* the next fragment at or after row i of the t-th table that enrichment
\* visits (tables without a schema are skipped, line 1515); <<0, 0>> for none
RECURSIVE nextFragment(_, _, _)
nextFragment(rbt, t, i) ==
    IF t > Len(rbt.keys) THEN <<0, 0>>
    ELSE IF FindSchema(schemas, rbt.keys[t]) = 0 \/ i > Len(rbt.vals[t])
    THEN nextFragment(rbt, t + 1, 1)
    ELSE <<t, i>>

\* ------------------------------------------------------------------------
\* resolveDeferredLookups, lines 1620-1684
\* ------------------------------------------------------------------------
RECURSIVE JoinComma(_, _)
JoinComma(items, n) ==
    IF n > Len(items) THEN ""
    ELSE ToString(items[n]) \o (IF n < Len(items) THEN "," ELSE "") \o JoinComma(items, n + 1)

\* String(value) of a row value
StringOf(value) ==
    IF value = NULL THEN "null"
    ELSE IF isArray(value) THEN JoinComma(Elements(value), 1)
    ELSE ToString(value)

\* lines 1643-1664: pRow agrees with parentData on every shared non-null key
\* and shares at least one
parentMatches(pRow, parentData) ==
    LET shared == {key \in DOMAIN parentData \cap DOMAIN pRow : parentData[key] # NULL}
    IN /\ shared # {}
       /\ \A key \in shared : StringOf(pRow[key]) = StringOf(parentData[key])

\* a variant of findParent that also searches the child's own table
RECURSIVE findParent_OwnTableToo(_, _, _, _)
findParent_OwnTableToo(rbt, table, parentData, p) ==
    IF p > Len(rbt.keys) THEN NoRow
    ELSE LET hits == {n \in 1..Len(rbt.vals[p]) : parentMatches(rbt.vals[p][n], parentData)}
         IN IF hits = {} THEN findParent_OwnTableToo(rbt, table, parentData, p + 1)
            ELSE rbt.vals[p][CHOOSE n \in hits : \A m \in hits : n <= m]

\* lines 1638-1676: the first matching row of the first other table that
\* has one, NoRow when no table has
RECURSIVE findParent(_, _, _, _)
findParent(rbt, table, parentData, p) ==
    IF p > Len(rbt.keys) THEN NoRow
    ELSE IF rbt.keys[p] = table THEN findParent(rbt, table, parentData, p + 1)
    ELSE LET hits == {n \in 1..Len(rbt.vals[p]) : parentMatches(rbt.vals[p][n], parentData)}
         IN IF hits = {} THEN findParent(rbt, table, parentData, p + 1)
            ELSE rbt.vals[p][CHOOSE n \in hits : \A m \in hits : n <= m]

\* lines 1668-1673
RECURSIVE applyLookups(_, _, _, _)
applyLookups(row, match, lookups, n) ==
    IF n > Len(lookups) THEN row
    ELSE applyLookups(IF lookups[n][2] \in DOMAIN match
                      THEN Assign(row, lookups[n][1] :> match[lookups[n][2]])
                      ELSE row,
                      match, lookups, n + 1)

\* lines 1626-1681, for row i of the t-th table
resolveRow(rbt, t, i) ==
    LET row == rbt.vals[t][i]
        metadata == {"__parentLookups", "__parentData"}
    IN IF metadata \subseteq DOMAIN row
       THEN LET match == findParent(rbt, rbt.keys[t], row["__parentData"], 1)
                resolved == IF match # NoRow
                            THEN applyLookups(row, match, row["__parentLookups"], 1)
                            ELSE row
            IN [rbt EXCEPT !.vals[t][i] = [c \in DOMAIN resolved \ metadata |-> resolved[c]]]
       ELSE rbt

RECURSIVE resolveDeferredLookups(_, _, _)
resolveDeferredLookups(rbt, t, i) ==
    IF t > Len(rbt.keys) THEN rbt
    ELSE IF i > Len(rbt.vals[t]) THEN resolveDeferredLookups(rbt, t + 1, 1)
    ELSE resolveDeferredLookups(resolveRow(rbt, t, i), t, i + 1)

\* ------------------------------------------------------------------------
\* extractInserts: column filter (lines 1453-1478) and Phase 3 (1480-1493)
\* ------------------------------------------------------------------------
filterRow(row, schema) == [c \in DOMAIN row \cap Range(schema.columns) |-> row[c]]

RECURSIVE filterColumns(_, _)
filterColumns(rbt, t) ==
    IF t > Len(rbt.keys) THEN rbt
    ELSE LET si == FindSchema(schemas, rbt.keys[t]) IN
         IF si = 0 THEN filterColumns(rbt, t + 1)
         ELSE filterColumns(
                [rbt EXCEPT !.vals[t] =
                    SelectSeq([n \in 1..Len(rbt.vals[t]) |-> filterRow(rbt.vals[t][n], schemas[si])],
                              LAMBDA filteredRow : DOMAIN filteredRow # {})],
                t + 1)

\* fetchDependencies run to its end on the fetcher state st; the SELECTs for
\* the referenced values in unanswered fail, all others are answered
fkValueAt(item, i) ==
    LET si == FindSchema(schemas, item.table)
    IN IF si = 0 \/ i > Len(schemas[si].foreignKeys) THEN NULL
       ELSE IF schemas[si].foreignKeys[i].columnName \in DOMAIN item.row
       THEN item.row[schemas[si].foreignKeys[i].columnName]
       ELSE NULL

RECURSIVE whileLoop(_, _)
whileLoop(st, unanswered) ==
    IF st.toFetch = <<>> THEN st
    ELSE whileLoop(processQueueItem(st, [i \in 1..2 |-> fkValueAt(Head(st.toFetch), i) \notin unanswered]),
                   unanswered)

\* where extractInserts continues after the loop over the queries (line 1436)
afterQueries(rbt) ==
    IF pool /\ Len(rbt.keys) > 0
    THEN (IF nextFragment(rbt, 1, 1) = <<0, 0>> THEN "resolve" ELSE "enrich")
    ELSE "filter"

\* ------------------------------------------------------------------------
\* The extractInserts state machine
\* ------------------------------------------------------------------------
\* the enrichment lookup that the database fails to answer in a run, by the
\* position of its fragment; <<0, 0>> when every lookup is answered
FailingLookups == {<<0, 0>>} \cup {<<t, i>> : t \in 1..2, i \in 1..3}

InitExtract ==
    /\ pc = "capture"
    /\ schemas = ExtractSchemas
    /\ db = LiveDatabase
    /\ rowsByTable = EmptyMap
    /\ queries = <<>>
    /\ columnMappings \in ManualMappings
    /\ pool \in BOOLEAN
    /\ failing \in IF pool THEN FailingLookups ELSE {<<0, 0>>}
    /\ qi = 0
    /\ emitted = <<>>
    /\ enrichAt = <<0, 0>>
    /\ merged = NoMerge
    /\ extracted = NoRows
    /\ result = NoRows
    /\ toFetch = <<>>
    /\ visited = {}
    /\ issued = <<>>
    /\ run = 0
    /\ OutsideExtractIdle

\* the interceptor hands one more captured query to the generator
CaptureQuery(query) ==
    /\ pc = "capture"
    /\ Len(queries) < MaxQueries
    /\ queries' = Append(queries, query)
    /\ UNCHANGED <<pc, schemas, rowsByTable, fetchVars, columnMappings, pool, failing, qi,
                   emitted, enrichAt, merged, outsideExtract>>

\* extractInserts is called, lines 1283-1286
ExtractInserts ==
    /\ pc = "capture"
    /\ rowsByTable' = EmptyMap
    /\ qi' = 1
    /\ emitted' = <<>>
    /\ merged' = NoMerge
    /\ enrichAt' = <<0, 0>>
    /\ pc' = IF Len(queries) = 0 THEN "filter" ELSE "queries"
    /\ UNCHANGED <<schemas, fetchVars, queries, columnMappings, pool, failing, outsideExtract>>

\* one turn of the loop over the queries, lines 1288-1430
ProcessQuery ==
    /\ pc = "queries"
    /\ LET query == queries[qi]
           merge == MergeLists(rowsByTable, extractedForQuery(query), 1)
       IN /\ rowsByTable' = merge
          /\ emitted' = IF query.verb \in {"INSERT", "SELECT", "WITH"}
                        THEN mappedRows(query).pushed ELSE <<>>
          /\ qi' = qi + 1
          /\ pc' = IF qi < Len(queries) THEN "queries" ELSE afterQueries(merge)
          /\ enrichAt' = IF qi < Len(queries) THEN enrichAt ELSE nextFragment(merge, 1, 1)
    /\ UNCHANGED <<schemas, fetchVars, queries, columnMappings, pool, failing, merged,
                   outsideExtract>>

\* what a SELECT of the enrichment can return
Answers == UNION {db[table] : table \in DOMAIN db} \cup {NoRow}

\* enrichRowsWithCompleteData: one turn of the loop over the fragments.
\* answer is the row the SELECT returns; NoRow when no query is built, when
\* it fails (the lookup at position failing) or when it finds nothing.
EnrichRow ==
    /\ pc = "enrich"
    /\ \E answer \in Answers :
       LET t == enrichAt[1]
           i == enrichAt[2]
           table == rowsByTable.keys[t]
           row == rowsByTable.vals[t][i]
           cols == lookupColumns(schemas[FindSchema(schemas, table)], row)
           after == enrichedRow(row, answer)
           enriched == [rowsByTable EXCEPT !.vals[t][i] = after]
       IN /\ IF cols = {} \/ enrichAt = failing \/ queryRows(db, table, cols, row) = {}
             THEN answer = NoRow
             ELSE answer \in queryRows(db, table, cols, row)
          /\ rowsByTable' = enriched
          /\ merged' = [table |-> table, index |-> i, hit |-> answer # NoRow,
                        before |-> row, fetched |-> answer, after |-> after,
                        statement |-> fetchQuery(table, cols)]
          /\ enrichAt' = nextFragment(enriched, t, i + 1)
          /\ pc' = IF nextFragment(enriched, t, i + 1) = <<0, 0>> THEN "resolve" ELSE "enrich"
    /\ UNCHANGED <<schemas, fetchVars, queries, columnMappings, pool, failing, qi, emitted,
                   outsideExtract>>

\* the end of enrichRowsWithCompleteData, line 1614
ResolveDeferredLookups ==
    /\ pc = "resolve"
    /\ rowsByTable' = resolveDeferredLookups(rowsByTable, 1, 1)
    /\ pc' = "filter"
    /\ UNCHANGED <<schemas, fetchVars, extractVars, outsideExtract>>

\* lines 1453-1478
FilterColumns ==
    /\ pc = "filter"
    /\ rowsByTable' = filterColumns(rowsByTable, 1)
    /\ pc' = "fetch"
    /\ UNCHANGED <<schemas, fetchVars, extractVars, outsideExtract>>

\* Phase 3, lines 1480-1499: the dependency fetch on this generator's
\* DependencyFetcher, the merge of its result, and the return
FetchMissingDependencies(unanswered) ==
    /\ pc = "fetch"
    /\ IF pool /\ Len(rowsByTable.keys) > 0
       THEN LET st == whileLoop([visited |-> visited, result |-> rowsByTable,
                                 rowsByTable |-> rowsByTable,
                                 toFetch |-> InitialQueue(rowsByTable, 1),
                                 issued |-> <<>>, db |-> db], unanswered)
            IN /\ rowsByTable' = MergeLists(st.rowsByTable, st.result, 1)
               /\ result' = st.result
               /\ visited' = st.visited
               /\ issued' = st.issued
       ELSE UNCHANGED <<rowsByTable, result, visited, issued>>
    /\ pc' = "returned"
    /\ UNCHANGED <<schemas, db, extracted, toFetch, run, extractVars, outsideExtract>>

NextExtract ==
    \/ \E query \in CapturedQueries : CaptureQuery(query)
    \/ ExtractInserts
    \/ ProcessQuery
    \/ EnrichRow
    \/ ResolveDeferredLookups
    \/ FilterColumns
    \/ \E unanswered \in SUBSET {1, 2} : FetchMissingDependencies(unanswered)

SpecExtract == InitExtract /\ [][NextExtract]_vars

\* ------------------------------------------------------------------------
\* Statements about extractInserts
\* ------------------------------------------------------------------------
\* <<table, fragment>> for every fragment of the run-wide map
Fragments == RowsIn(rowsByTable)

InLiveSchema(table) == FindSchema(schemas, table) # 0

DeclaredColumns(table) == Range(schemas[FindSchema(schemas, table)].columns)

\* the column-filtering step has run in this call
Filtered == pc \in {"fetch", "returned"}

\* C8: after the column-filtering step of extractInserts every column of
\* every fragment is a column declared in the schema of the table the
\* fragment is filed under, and no fragment without a declared column
\* remains; the same holds for the map extractInserts returns.
Cex_C8 ==
    Filtered =>
        \A tf \in Fragments :
            /\ InLiveSchema(tf[1])
            /\ DOMAIN tf[2] # {}
            /\ DOMAIN tf[2] \subseteq DeclaredColumns(tf[1])

\* the same for the fragments filed under a table of the live schema
C8_SchemaTables ==
    Filtered =>
        \A tf \in Fragments :
            InLiveSchema(tf[1]) => (DOMAIN tf[2] # {} /\ DOMAIN tf[2] \subseteq DeclaredColumns(tf[1]))

\* C9: extractInserts never files a fragment under a table name that is
\* absent from the live schema set, whichever path produced the fragment.
Cex_C9 == \A tf \in Fragments : InLiveSchema(tf[1])

\* the fragments of the candidate tables (parser output or regex fallback)
\* alone are filed under tables of the live schema
C9_CandidateTables ==
    \A n \in 1..Len(queries) :
        \A table \in Range(plainRows(queries[n], identifiedTables(queries[n]), 1, EmptyMap).keys) :
            InLiveSchema(table)

\* the last enrichment lookup hit and the fragment is as the merge left it
MergeDone ==
    /\ pc \in {"enrich", "resolve"}
    /\ merged.hit

\* C7 as stated: when an enrichment lookup hits, the merged fragment has, for
\* every column, the fragment's own value if the fragment already had the
\* column and the fetched row's value otherwise.
Cex_C7 ==
    MergeDone =>
        /\ DOMAIN merged.after = DOMAIN merged.before \cup DOMAIN merged.fetched
        /\ \A c \in DOMAIN merged.after :
              merged.after[c] = IF c \in DOMAIN merged.before
                                THEN merged.before[c] ELSE merged.fetched[c]

\* C7: when an enrichment lookup hits, the merged fragment has, for every
\* column, the fetched row's value if the fetched row has the column and the
\* fragment's own value otherwise: every column the fragment lacked is filled
\* from the fetched row, the columns the fetched row lacks are kept, and a
\* value of the fragment that differs from the fetched row's is replaced.
Thm_C7 ==
    MergeDone =>
        /\ DOMAIN merged.after = DOMAIN merged.before \cup DOMAIN merged.fetched
        /\ \A c \in DOMAIN merged.after :
              merged.after[c] = IF c \in DOMAIN merged.fetched
                                THEN merged.fetched[c] ELSE merged.before[c]
        /\ \E t \in 1..Len(rowsByTable.keys) :
              /\ rowsByTable.keys[t] = merged.table
              /\ rowsByTable.vals[t][merged.index] = merged.after

\* a hit on a fragment that lacked a column of the fetched row, had a column
\* the fetched row lacks, and held a value other than the fetched row's
Wit_C7 ==
    /\ MergeDone
    /\ DOMAIN merged.fetched \ DOMAIN merged.before # {}
    /\ DOMAIN merged.before \ DOMAIN merged.fetched # {}
    /\ \E c \in DOMAIN merged.before \cap DOMAIN merged.fetched :
          /\ merged.before[c] # merged.fetched[c]
          /\ merged.after[c] = merged.fetched[c]

\* a query has just gone through the loop body and nothing has touched the
\* run-wide map since
JustProcessed ==
    /\ qi >= 2
    /\ merged = NoMerge
    /\ pc \in {"queries", "enrich"} \/ (pc = "filter" /\ ~pool)
    /\ queries[qi - 1].verb \in {"INSERT", "SELECT", "WITH"}

lastQuery == queries[qi - 1]

\* the fragments pushed for result row r and the mapping of resultColumn
PushedFor(r, resultColumn) ==
    SelectSeq(emitted, LAMBDA e : e.row = r /\ e.resultColumn = resultColumn)

\* the output value the mapping of resultColumn reads in row: 0 stands for
\* none when it is null or absent
OutputValue(row, resultColumn) ==
    IF baseColumn(resultColumn) \in DOMAIN row THEN row[baseColumn(resultColumn)] ELSE NULL

CarriesSiblings(fragment, row, mapping) ==
    \A n \in 1..Len(mapping.siblings) :
        mapping.siblings[n][1] \in DOMAIN row
        => /\ mapping.siblings[n][2] \in DOMAIN fragment
           /\ fragment[mapping.siblings[n][2]] = row[mapping.siblings[n][1]]

\* the fragments pushed for a table, in order
EmittedFor(table) ==
    LET es == SelectSeq(emitted, LAMBDA e : e.table = table)
    IN [n \in 1..Len(es) |-> es[n].fragment]

\* C10: for every captured result row and every applied column mapping, a
\* collection-shaped mapping whose output value is an array of n elements
\* yields exactly n fragments for the target table, the i-th carrying
\* targetColumn = i-th element and every sibling column whose output value
\* is present in the row; a scalar-shaped mapping with a non-null value
\* yields exactly one fragment; a null or absent value yields none.
Thm_C10 ==
    JustProcessed =>
        /\ \A r \in 1..Len(lastQuery.rows) :
           \A k \in 1..Len(effectiveMappings(lastQuery).keys) :
              LET resultColumn == effectiveMappings(lastQuery).keys[k]
                  mapping == effectiveMappings(lastQuery).vals[k]
                  row == lastQuery.rows[r]
                  value == OutputValue(row, resultColumn)
                  pushed == PushedFor(r, resultColumn)
              IN /\ \A n \in 1..Len(pushed) : pushed[n].table = mapping.table
                 /\ value = NULL => pushed = <<>>
                 /\ (mapping.type = "array" /\ isArray(value)) =>
                        /\ Len(pushed) = Len(Elements(value))
                        /\ \A n \in 1..Len(pushed) :
                              /\ pushed[n].fragment[mapping.column] = Elements(value)[n]
                              /\ CarriesSiblings(pushed[n].fragment, row, mapping)
                 /\ (mapping.type # "array" /\ value # NULL) =>
                        /\ Len(pushed) = 1
                        /\ pushed[1].fragment[mapping.column] = value
        /\ \A e \in Range(emitted) :
              /\ e.row \in 1..Len(lastQuery.rows)
              /\ MapHas(effectiveMappings(lastQuery), e.resultColumn)
        /\ \A table \in {e.table : e \in Range(emitted)} :
              /\ MapHas(rowsByTable, table)
              /\ Len(EmittedFor(table)) <= Len(MapGet(rowsByTable, table))
              /\ Slice(MapGet(rowsByTable, table), 0 - Len(EmittedFor(table))) = EmittedFor(table)

\* a query whose rows gave an unrolled array of two elements with a sibling,
\* one fragment for a scalar mapping, and nothing for a null value
Wit_C10 ==
    /\ JustProcessed
    /\ \E r \in 1..Len(lastQuery.rows), k \in 1..Len(effectiveMappings(lastQuery).keys) :
          LET mapping == effectiveMappings(lastQuery).vals[k]
              value == OutputValue(lastQuery.rows[r], effectiveMappings(lastQuery).keys[k])
          IN /\ mapping.type = "array" /\ isArray(value) /\ Len(Elements(value)) = 2
             /\ Len(mapping.siblings) > 0
             /\ Len(PushedFor(r, effectiveMappings(lastQuery).keys[k])) = 2
    /\ \E r \in 1..Len(lastQuery.rows), k \in 1..Len(effectiveMappings(lastQuery).keys) :
          /\ effectiveMappings(lastQuery).vals[k].type # "array"
          /\ Len(PushedFor(r, effectiveMappings(lastQuery).keys[k])) = 1
    /\ \E r \in 1..Len(lastQuery.rows), k \in 1..Len(effectiveMappings(lastQuery).keys) :
          /\ OutputValue(lastQuery.rows[r], effectiveMappings(lastQuery).keys[k]) = NULL
          /\ PushedFor(r, effectiveMappings(lastQuery).keys[k]) = <<>>

\* inferred key k maps the output column that the manual key m overrides:
\* m names the column itself, k the column or one of its CASE branches
SameOutputColumn(m, k) == m = baseColumn(m) /\ baseColumn(k) = m

\* C11: when a manual column mapping and an inferred mapping both exist for
\* the same output column of a query, only the manual mapping is applied to
\* that column; the inferred mapping for the column, its CASE-branch variants
\* included, produces no fragments.
Cex_C11 ==
    JustProcessed =>
        \A m \in Range(columnMappings.keys), k \in Range(lastQuery.inferred.keys) :
            SameOutputColumn(m, k) =>
                /\ MapGet(effectiveMappings(lastQuery), m) = MapGet(columnMappings, m)
                /\ k # m => \A r \in 1..Len(lastQuery.rows) : PushedFor(r, k) = <<>>

\* the same when the inferred mapping has the very key of the manual one
C11_SameKey ==
    JustProcessed =>
        \A m \in Range(columnMappings.keys) :
            MapHas(lastQuery.inferred, m) =>
                /\ MapGet(effectiveMappings(lastQuery), m) = MapGet(columnMappings, m)
                /\ \A e \in Range(emitted) :
                      e.resultColumn = m => e.table = MapGet(columnMappings, m).table

\* the statements sent on the live connection: the lookup of the fragment
\* just enriched and the SELECTs of the dependency fetch
Statements ==
    ({merged.statement} \ {NoStatement}) \cup {issued[n].statement : n \in 1..Len(issued)}

\* C12: every statement sent to the live database, in enrichment and in
\* dependency fetching, is a SELECT * ... LIMIT 1 read; no INSERT, UPDATE,
\* DELETE or DDL statement is issued on the live connection.
Thm_C12 ==
    \A s \in Statements :
        /\ s.verb = "SELECT"
        /\ s.columns = "*"
        /\ s.where # {}
        /\ s.limit = 1

\* a run that sent an enrichment lookup and a dependency fetch
Wit_C12 ==
    /\ pc = "returned"
    /\ merged.statement # NoStatement
    /\ issued # <<>>

\* ------------------------------------------------------------------------
\* DependencyResolver.sortRows, lines 169-208, as generateSeeder uses it on
\* the deduplicated rows of a table (seeder-generator.ts, lines 1993-2003)
\* ------------------------------------------------------------------------
SortTable == "categories"

\* the values of the first primary-key column
SortIds == 1..3

\* the table references itself through parent_id, alone or after a foreign
\* key to another table; or it has no self-reference; or no primary key
SelfFk == [columnName |-> "parent_id", referencedTable |-> SortTable, referencedColumn |-> "id"]

OwnerFk == [columnName |-> "owner_id", referencedTable |-> "users", referencedColumn |-> "id"]

SortSchemas ==
    { <<[tableName |-> SortTable, primaryKeys |-> pks, foreignKeys |-> fks]>> :
        pks \in {<<"id">>, <<"id", "lang">>, <<>>},
        fks \in {<<SelfFk>>, <<OwnerFk, SelfFk>>, <<OwnerFk>>} }

\* the rows of the table: a row names its parent, or has a null parent, or
\* was captured without the parent column
SortRowValues ==
    {[id |-> i, parent_id |-> p] : i \in SortIds, p \in SortIds \cup {NULL}} \cup {[id |-> 3]}

\* rows of a table whose primary key is (id, lang): a category in two
\* languages, and a child category
LangRows ==
    {[id |-> 1, lang |-> l, parent_id |-> NULL] : l \in 1..2}
    \cup {[id |-> 2, lang |-> 1, parent_id |-> 1]}

\* line 171
selfFks(table, schema) ==
    SelectSeq(schema.foreignKeys, LAMBDA fk : fk.referencedTable = table)

\* lines 183-184: rows.forEach(row => rowMap.set(row[pk], row))
RECURSIVE rowMapOf(_, _, _, _)
rowMapOf(rows, pk, n, rowMap) ==
    IF n > Len(rows) THEN rowMap
    ELSE rowMapOf(rows, pk, n + 1, MapSet(rowMap, rows[n][pk], rows[n]))

\* a variant of parentInSet that never finds the parent
parentInSet_Never(rowMap, parentId) == FALSE

\* lines 194-197: the parent id is set and rowMap holds a row for it
parentInSet(rowMap, parentId) == parentId # NULL /\ MapHas(rowMap, parentId)

\* lines 189-203: visit, on the state st of visited and sorted
RECURSIVE visit(_, _, _, _, _)
visit(row, pk, fk, rowMap, st) ==
    LET id == row[pk]
        parentId == IF fk.columnName \in DOMAIN row THEN row[fk.columnName] ELSE NULL
        entered == [st EXCEPT !.visited = @ \cup {id}]
        parentDone == IF parentInSet(rowMap, parentId)
                      THEN visit(MapGet(rowMap, parentId), pk, fk, rowMap, entered)
                      ELSE entered
    IN IF id \in st.visited THEN st
       ELSE [parentDone EXCEPT !.sorted = Append(@, row)]

\* line 205: rows.forEach(row => visit(row))
RECURSIVE visitAll(_, _, _, _, _, _)
visitAll(rows, n, pk, fk, rowMap, st) ==
    IF n > Len(rows) THEN st
    ELSE visitAll(rows, n + 1, pk, fk, rowMap, visit(rows[n], pk, fk, rowMap, st))

sortRows(table, rows, schema) ==
    IF Len(selfFks(table, schema)) = 0 THEN rows
    ELSE IF Len(schema.primaryKeys) = 0 THEN rows
    ELSE LET fk == selfFks(table, schema)[1]
             pk == schema.primaryKeys[1]
         IN visitAll(rows, 1, pk, fk, rowMapOf(rows, pk, 1, EmptyMap),
                     [visited |-> {}, sorted |-> <<>>]).sorted

InitSort ==
    /\ pc = "rows"
    /\ schemas \in SortSchemas
    /\ deduplicated = MapSet(EmptyMap, SortTable, <<>>)
    /\ sortedRows = <<>>
    /\ OutsideSortIdle

\* deduplicateAll leaves one more row for the table: no two rows are equal,
\* and no two rows have the same primary-key values when the table has a
\* primary key, whose columns every row carries
DeduplicatedRow(row) ==
    /\ pc = "rows"
    /\ Len(MapGet(deduplicated, SortTable)) < MaxRows
    /\ ~Includes(MapGet(deduplicated, SortTable), row)
    /\ \A c \in Range(schemas[1].primaryKeys) : c \in DOMAIN row
    /\ Len(schemas[1].primaryKeys) > 0 =>
          \A n \in 1..Len(MapGet(deduplicated, SortTable)) :
              \E c \in Range(schemas[1].primaryKeys) :
                  MapGet(deduplicated, SortTable)[n][c] # row[c]
    /\ deduplicated' = MapSet(deduplicated, SortTable, Append(MapGet(deduplicated, SortTable), row))
    /\ UNCHANGED <<pc, schemas, sortedRows, outsideSort>>

SortRows ==
    /\ pc = "rows"
    /\ sortedRows' = sortRows(SortTable, MapGet(deduplicated, SortTable), schemas[1])
    /\ pc' = "sorted"
    /\ UNCHANGED <<schemas, deduplicated, outsideSort>>

NextSort ==
    \/ \E row \in SortRowValues \cup LangRows : DeduplicatedRow(row)
    \/ SortRows

SpecSort == InitSort /\ [][NextSort]_vars

\* the rows handed to sortRows
SortInput == MapGet(deduplicated, SortTable)

\* sortRows orders by a parent pointer: a self-referencing FK and a PK exist
Hierarchical == Len(selfFks(SortTable, schemas[1])) > 0 /\ Len(schemas[1].primaryKeys) > 0

\* the parent id of a row, NULL when null or not captured
ParentId(row) == IF "parent_id" \in DOMAIN row THEN row.parent_id ELSE NULL

\* id c has a row whose parent is the id p of another row of the set
ParentEdge(rows, c, p) ==
    /\ c # p
    /\ \E r \in Range(rows) : r.id = c /\ ParentId(r) = p
    /\ \E r \in Range(rows) : r.id = p

\* the ids that id c reaches by following parent pointers at most n times
RECURSIVE Ancestors(_, _, _)
Ancestors(rows, c, n) ==
    IF n = 0 THEN {}
    ELSE LET near == {p \in SortIds : ParentEdge(rows, c, p)}
         IN near \cup UNION {Ancestors(rows, p, n - 1) : p \in near}

NoParentCycle(rows) == \A c \in SortIds : c \notin Ancestors(rows, c, Cardinality(SortIds))

\* C14: for a self-referencing table, in the list returned by sortRows every
\* row whose self-FK value equals the primary key of another row of the row
\* set appears after that parent row, when the rows contain no parent cycle;
\* a row whose parent is null or absent from the set waits for no row.
Thm_C14 ==
    (pc = "sorted" /\ Hierarchical /\ NoParentCycle(SortInput)) =>
        \A i \in 1..Len(sortedRows) :
            ParentEdge(SortInput, sortedRows[i].id, ParentId(sortedRows[i])) =>
                /\ \E j \in 1..(i - 1) : sortedRows[j].id = ParentId(sortedRows[i])
                /\ \A j \in 1..Len(sortedRows) :
                      sortedRows[j].id = ParentId(sortedRows[i]) => j < i

\* a chain of three rows handed over child first comes back parent first
Wit_C14 ==
    /\ pc = "sorted"
    /\ Hierarchical
    /\ SortInput = <<[id |-> 3, parent_id |-> 2], [id |-> 2, parent_id |-> 1],
                     [id |-> 1, parent_id |-> NULL]>>
    /\ sortedRows = <<[id |-> 1, parent_id |-> NULL], [id |-> 2, parent_id |-> 1],
                      [id |-> 3, parent_id |-> 2]>>

\* ------------------------------------------------------------------------
\* QueryParser.parseCaseExpression, schema-analyzer.ts lines 476-544, on the
\* syntax tree of a CASE expression: whens (each with its THEN value) and an
\* optional else.  A value is a call, a sub-select or another expression.
\* ------------------------------------------------------------------------
MaxWhens == 2

\* lines 482, 521: the aggregate vocabulary
AggregateFunctions == {"array_agg", "count", "sum", "avg", "min", "max"}

\* the property of an object that was never set
undefined == "undefined"

Ref(table, name) == [type |-> "ref", table |-> table, name |-> name]

Call(function, args) == [type |-> "call", function |-> function, args |-> args]

Select(columns, from) == [type |-> "select", columns |-> columns, from |-> from]

NoElse == [type |-> undefined]

\* the values a THEN or an ELSE can have in the captured queries
BranchValues ==
    { Ref("a", "code"),
      Call("array_agg", <<Ref("ab", "ref_id")>>),
      Call("count", <<>>),
      Call("max", <<Ref("ab", "ref_id")>>),
      Call("upper", <<Ref("ab", "name")>>),
      Select(<<Call("array_agg", <<Ref("b", "ref_id")>>)>>, <<[type |-> "table", name |-> "table_b", alias |-> "b"]>>),
      Select(<<Call("upper", <<Ref("b", "name")>>)>>, <<[type |-> "table", name |-> "table_b", alias |-> "b"]>>),
      Select(<<Ref("b", "ref_id")>>, <<[type |-> "table", name |-> "table_b", alias |-> "b"]>>),
      Select(<<Call("max", <<Ref("b", "ref_id")>>)>>, <<>>) }

\* lines 546-561
extractAggregateDetails(callExpr) ==
    IF Len(callExpr.args) = 0
    THEN [aggregateColumn |-> undefined, tableAlias |-> undefined]
    ELSE IF callExpr.args[1].type = "ref"
    THEN [aggregateColumn |-> callExpr.args[1].name, tableAlias |-> callExpr.args[1].table]
    ELSE [aggregateColumn |-> undefined, tableAlias |-> undefined]

\* lines 563-578
extractFromTable(stmt) ==
    IF Len(stmt.from) = 0 THEN [tableName |-> ""]
    ELSE IF stmt.from[1].type = "table"
    THEN [tableName |-> stmt.from[1].name, alias |-> stmt.from[1].alias]
    ELSE [tableName |-> ""]

\* lines 484-491, 523-530: the descriptor of a direct aggregate call
directAggregate(branch, value) ==
    [branch |-> branch, aggregateFunction |-> value.function,
     aggregateColumn |-> extractAggregateDetails(value).aggregateColumn,
     tableAlias |-> extractAggregateDetails(value).tableAlias,
     isSubquery |-> FALSE, subqueryTable |-> undefined]

\* lines 499-511: the descriptor of a sub-select whose first column is a call
subqueryAggregate(value) ==
    [branch |-> "THEN", aggregateFunction |-> value.columns[1].function,
     aggregateColumn |-> extractAggregateDetails(value.columns[1]).aggregateColumn,
     tableAlias |-> extractAggregateDetails(value.columns[1]).tableAlias,
     isSubquery |-> TRUE, subqueryTable |-> extractFromTable(value).tableName]

\* lines 480-515: what one WHEN adds to caseAggregates
whenAggregates(value) ==
    IF value.type = "call"
    THEN (IF value.function \in AggregateFunctions THEN <<directAggregate("THEN", value)>> ELSE <<>>)
    ELSE IF value.type = "select"
    THEN (IF Len(value.columns) > 0 /\ value.columns[1].type = "call"
          THEN <<subqueryAggregate(value)>> ELSE <<>>)
    ELSE <<>>

\* lines 518-531
elseAggregates(value) ==
    IF value.type = "call" /\ value.function \in AggregateFunctions
    THEN <<directAggregate("ELSE", value)>> ELSE <<>>

RECURSIVE whensAggregates(_, _)
whensAggregates(whens, n) ==
    IF n > Len(whens) THEN <<>>
    ELSE whenAggregates(whens[n].value) \o whensAggregates(whens, n + 1)

parseCaseExpression(expr) ==
    LET caseAggregates == whensAggregates(expr.whens, 1) \o elseAggregates(expr.else)
    IN [isAggregate |-> Len(caseAggregates) > 0,
        aggregateFunction |-> IF Len(caseAggregates) > 0
                              THEN caseAggregates[1].aggregateFunction ELSE undefined,
        caseAggregates |-> caseAggregates]

CaseExpressions ==
    UNION { [type : {"case"}, whens : [1..n -> [value : BranchValues]],
             else : BranchValues \cup {NoElse}] :
            n \in 1..MaxWhens }

\* an output column that is a plain function call
PlainCalls == {value \in BranchValues : value.type = "call"}

\* lines 445-455 of extractSelectColumns: the column of a function call
callColumn(expr) ==
    LET isAgg == expr.function \in AggregateFunctions
    IN [isAggregate |-> isAgg,
        aggregateFunction |-> IF isAgg THEN expr.function ELSE undefined,
        aggregateColumn |-> extractAggregateDetails(expr).aggregateColumn,
        tableAlias |-> extractAggregateDetails(expr).tableAlias,
        caseAggregates |-> <<>>]

\* ------------------------------------------------------------------------
\* AutoColumnMapper.inferMappings, auto-column-mapper.ts lines 173-292, for
\* the calculated output column ref_ids of
\*   SELECT a.id, <expression> AS ref_ids
\*     FROM table_a a JOIN table_ab ab ON ab.a_id = a.id GROUP BY a.id
\* ------------------------------------------------------------------------
FieldName == "ref_ids"

OuterQuery ==
    [fromTable |-> [tableName |-> "table_a", alias |-> "a"],
     joins |-> << [tableName |-> "table_ab", alias |-> "ab"] >>,
     conditions |-> << [leftTable |-> "ab", leftColumn |-> "a_id",
                        rightTable |-> "a", rightColumn |-> "id"] >>,
     plainColumns |-> << [table |-> "a", column |-> "id", alias |-> ""] >>,
     paramMappings |-> <<>>, params |-> <<>>]

NoMapping == [table |-> undefined]

\* lines 327-398: table and sibling of a direct aggregate, from the JOIN of
\* its table
inferArrayAggMapping(selectCol) ==
    IF selectCol.tableAlias = undefined \/ ~MapHas(buildAliasMap(OuterQuery), selectCol.tableAlias)
    THEN NoMapping
    ELSE LET tableName == MapGet(buildAliasMap(OuterQuery), selectCol.tableAlias)
             found == {j \in 1..Len(OuterQuery.joins) :
                          \/ OuterQuery.joins[j].alias = selectCol.tableAlias
                          \/ OuterQuery.joins[j].tableName = tableName}
         IN IF found = {} THEN NoMapping
            ELSE LET j == CHOOSE j \in found : \A i \in found : j <= i
                     condition == OuterQuery.conditions[j]
                     fkColumn == IF condition.leftTable = selectCol.tableAlias
                                 THEN condition.leftColumn
                                 ELSE IF condition.rightTable = selectCol.tableAlias
                                 THEN condition.rightColumn ELSE undefined
                     referencedColumn == IF condition.leftTable = selectCol.tableAlias
                                         THEN condition.rightColumn
                                         ELSE IF condition.rightTable = selectCol.tableAlias
                                         THEN condition.leftColumn ELSE undefined
                     matching == SelectSeq(OuterQuery.plainColumns,
                                           LAMBDA col : col.column = referencedColumn)
                 IN IF fkColumn = undefined THEN NoMapping
                    ELSE Mapping(tableName, selectCol.aggregateColumn, "array",
                                 IF Len(matching) > 0
                                 THEN << <<IF matching[1].alias # "" THEN matching[1].alias
                                           ELSE matching[1].column, fkColumn>> >>
                                 ELSE <<>>,
                                 <<>>)

\* lines 211-258: the mapping of one CASE branch
caseBranchMapping(caseAgg) ==
    IF caseAgg.isSubquery /\ caseAgg.subqueryTable \notin {undefined, ""}
    THEN Mapping(caseAgg.subqueryTable, caseAgg.aggregateColumn, "array",
                 Entries(extractSiblingsFromParams(OuterQuery, caseAgg.subqueryTable, 1, EmptyMap)),
                 <<>>)
    ELSE IF caseAgg.tableAlias # undefined /\ MapHas(buildAliasMap(OuterQuery), caseAgg.tableAlias)
    THEN (IF caseAgg.isSubquery
          THEN Mapping(MapGet(buildAliasMap(OuterQuery), caseAgg.tableAlias),
                       caseAgg.aggregateColumn, "array",
                       Entries(extractSiblingsFromParams(OuterQuery,
                                   MapGet(buildAliasMap(OuterQuery), caseAgg.tableAlias), 1, EmptyMap)),
                       <<>>)
          ELSE inferArrayAggMapping(caseAgg))
    ELSE NoMapping

RECURSIVE caseMappings(_, _, _)
caseMappings(caseAggregates, n, acc) ==
    IF n > Len(caseAggregates) THEN acc
    ELSE caseMappings(caseAggregates, n + 1,
            IF caseBranchMapping(caseAggregates[n]) # NoMapping
            THEN MapSet(acc, FieldName \o "_" \o caseAggregates[n].branch,
                        caseBranchMapping(caseAggregates[n]))
            ELSE acc)

\* lines 262-288: the mapping of a plain array_agg column, with the
\* siblings of the WHERE parameters spread over those of the JOIN
plainMapping(selectCol) ==
    LET mapping == inferArrayAggMapping(selectCol)
    IN IF selectCol.aggregateFunction = "array_agg" /\ selectCol.aggregateColumn # undefined
          /\ mapping # NoMapping
       THEN MapSet(EmptyMap, FieldName,
                   [mapping EXCEPT !.siblings =
                       Entries(SpreadInto(
                           SpreadInto(EmptyMap,
                                      [keys |-> [n \in 1..Len(mapping.siblings) |-> mapping.siblings[n][1]],
                                       vals |-> [n \in 1..Len(mapping.siblings) |-> mapping.siblings[n][2]]],
                                      1),
                           extractSiblingsFromParams(OuterQuery, mapping.table, 1, EmptyMap), 1))])
       ELSE EmptyMap

\* lines 193-292: the body of the loop for the field ref_ids
inferMappings(tableID, selectCol) ==
    IF tableID # 0 THEN EmptyMap
    ELSE IF ~selectCol.isAggregate THEN EmptyMap
    ELSE IF Len(selectCol.caseAggregates) > 0
    THEN caseMappings(selectCol.caseAggregates, 1, EmptyMap)
    ELSE plainMapping(selectCol)

\* the table OIDs the server reports for a field: 0 for a calculated one
TableIDs == {0, 16384}

InitParse ==
    /\ pc = "sql"
    /\ caseExpr \in CaseExpressions \cup PlainCalls
    /\ caseColumn = <<>>
    /\ inferredMappings = <<>>
    /\ OutsideParseIdle

ParseCaseExpression ==
    /\ pc = "sql"
    /\ caseExpr.type = "case"
    /\ caseColumn' = parseCaseExpression(caseExpr)
    /\ pc' = "parsed"
    /\ UNCHANGED <<caseExpr, inferredMappings, outsideParse>>

\* extractSelectColumns on a function call, lines 445-455
ParseCall ==
    /\ pc = "sql"
    /\ caseExpr.type = "call"
    /\ caseColumn' = callColumn(caseExpr)
    /\ pc' = "call"
    /\ UNCHANGED <<caseExpr, inferredMappings, outsideParse>>

\* AutoColumnMapper.inferMappings on the parsed query
InferMappings(tableID) ==
    /\ pc \in {"parsed", "call"}
    /\ inferredMappings' = [tableID |-> tableID, map |-> inferMappings(tableID, caseColumn)]
    /\ pc' = "mapped"
    /\ UNCHANGED <<caseExpr, caseColumn, outsideParse>>

NextParse ==
    \/ ParseCaseExpression
    \/ ParseCall
    \/ \E tableID \in TableIDs : InferMappings(tableID)

SpecParse == InitParse /\ [][NextParse]_vars

\* a direct call of an aggregate function
IsAggregateCall(value) == value.type = "call" /\ value.function \in AggregateFunctions

\* a sub-select with a single output column that is an aggregate call
IsAggregateSubquery(value) ==
    value.type = "select" /\ Len(value.columns) = 1 /\ IsAggregateCall(value.columns[1])

\* the branches that bear an aggregate: a THEN that is an aggregate call or
\* an aggregate sub-select, an ELSE that is an aggregate call
AggregateBranches ==
    Cardinality({n \in 1..Len(caseExpr.whens) :
                    IsAggregateCall(caseExpr.whens[n].value) \/ IsAggregateSubquery(caseExpr.whens[n].value)})
    + (IF IsAggregateCall(caseExpr.else) THEN 1 ELSE 0)

\* the descriptors of the parsed column, as a set of positions
Descriptors == 1..Len(caseColumn.caseAggregates)

\* C15: a CASE output column yields one branch descriptor per
\* aggregate-bearing branch and between 0 and 2 descriptors in total; a THEN
\* that is a sub-select with one aggregate output is tagged THEN, isSubquery
\* true, subqueryTable the sub-select's FROM table; an ELSE that is a direct
\* aggregate call is tagged ELSE, isSubquery false, tableAlias the alias of
\* the aggregate's argument.
Cex_C15 ==
    pc = "parsed" =>
        /\ Len(caseColumn.caseAggregates) = AggregateBranches
        /\ Len(caseColumn.caseAggregates) <= 2
        /\ \A d \in Descriptors :
              caseColumn.caseAggregates[d].isSubquery =>
                  /\ caseColumn.caseAggregates[d].branch = "THEN"
                  /\ caseColumn.caseAggregates[d].subqueryTable \in {"table_b", ""}
        /\ IsAggregateCall(caseExpr.else) =>
              \E d \in Descriptors :
                  /\ caseColumn.caseAggregates[d].branch = "ELSE"
                  /\ ~caseColumn.caseAggregates[d].isSubquery
                  /\ caseColumn.caseAggregates[d].tableAlias =
                         extractAggregateDetails(caseExpr.else).tableAlias

\* the same for a CASE with a single WHEN whose sub-selects all compute
\* aggregates: there the descriptors are as claimed
C15_SingleWhen ==
    (/\ pc = "parsed"
     /\ Len(caseExpr.whens) = 1
     /\ caseExpr.whens[1].value.type = "select" => IsAggregateSubquery(caseExpr.whens[1].value)) =>
        /\ Len(caseColumn.caseAggregates) = AggregateBranches
        /\ Len(caseColumn.caseAggregates) <= 2

\* ------------------------------------------------------------------------
\* The global InterceptorRegistry (interceptor-registry.ts) with the
\* interceptors that startCapturePool / startCaptureClient create (index.ts).
\* An interceptor is named by the order of its creation; capturedQueries[i]
\* holds the class and the capturedQueries field of interceptor i.
\* ------------------------------------------------------------------------
MaxInterceptors == 3
MaxCaptured == 3

DatabaseNames == {"db1", "db2"}

\* interceptor-registry.ts, lines 14-16: this.interceptors.set(name, interceptor)
register(registry, name, interceptor) == MapSet(registry, name, interceptor)

\* lines 28-30
getAll(registry) == registry.vals

\* lines 35-37: getAll().flatMap(i => i.getCapturedQueries())
RECURSIVE flatMapQueries(_, _, _)
flatMapQueries(all, captured, n) ==
    IF n > Len(all) THEN <<>>
    ELSE captured[all[n]].queries \o flatMapQueries(all, captured, n + 1)

getAllQueries(registry, captured) == flatMapQueries(getAll(registry), captured, 1)

InitRegistry ==
    /\ pc = "capturing"
    /\ interceptors = EmptyMap
    /\ capturedQueries = <<>>
    /\ savedFile = <<>>
    /\ OutsideRegistryIdle

\* index.ts, lines 24-52: a PoolInterceptor is created and registered
StartCapturePool(databaseName) ==
    /\ Len(capturedQueries) < MaxInterceptors
    /\ capturedQueries' = Append(capturedQueries, [class |-> "PoolInterceptor", queries |-> <<>>])
    /\ interceptors' = register(interceptors, databaseName, Len(capturedQueries) + 1)
    /\ UNCHANGED <<savedFile, outsideRegistry>>

\* index.ts, lines 58-82: a ClientInterceptor is created and registered
StartCaptureClient(databaseName) ==
    /\ Len(capturedQueries) < MaxInterceptors
    /\ capturedQueries' = Append(capturedQueries, [class |-> "ClientInterceptor", queries |-> <<>>])
    /\ interceptors' = register(interceptors, databaseName, Len(capturedQueries) + 1)
    /\ UNCHANGED <<savedFile, outsideRegistry>>

\* the number of queries captured so far
RECURSIVE TotalCaptured(_, _)
TotalCaptured(captured, n) ==
    IF n > Len(captured) THEN 0 ELSE Len(captured[n].queries) + TotalCaptured(captured, n + 1)

\* the wrapped query method of interceptor i runs a query and captures it
\* (client-interceptor.ts line 82, pool-interceptor.ts line 92); the query
\* is named by its interceptor and its position.  Capture is followed up to
\* the call of saveAll.
InterceptQuery(i) ==
    /\ i <= Len(capturedQueries)
    /\ TotalCaptured(capturedQueries, 1) < MaxCaptured
    /\ Len(savedFile) = 0
    /\ capturedQueries' = [capturedQueries EXCEPT ![i].queries = Append(@, <<i, Len(@) + 1>>)]
    /\ UNCHANGED <<interceptors, savedFile, outsideRegistry>>

\* interceptor-registry.ts, lines 42-60: the first interceptor is cleared,
\* given all the queries, and saved
SaveAll ==
    /\ Len(savedFile) = 0
    /\ IF Len(interceptors.keys) = 0
       THEN UNCHANGED <<capturedQueries, savedFile>>
       ELSE LET allQueries == getAllQueries(interceptors, capturedQueries)
                firstInterceptor == getAll(interceptors)[1]
            IN /\ capturedQueries' = [capturedQueries EXCEPT ![firstInterceptor].queries = allQueries]
               /\ savedFile' = <<allQueries>>
    /\ UNCHANGED <<interceptors, outsideRegistry>>

NextRegistry ==
    \/ \E databaseName \in DatabaseNames : StartCapturePool(databaseName)
    \/ \E databaseName \in DatabaseNames : StartCaptureClient(databaseName)
    \/ \E i \in 1..MaxInterceptors : InterceptQuery(i)
    \/ SaveAll

SpecRegistry == InitRegistry /\ [][NextRegistry]_vars

\* C16: after any sequence of startCapturePool / startCaptureClient calls
\* and intercepted queries, interceptors.getAllQueries() contains every query
\* captured by every interceptor that was started, also when several
\* interceptors were started under the same database name; so does the file
\* that saveAll writes.
Cex_C16 ==
    /\ \A i \in 1..Len(capturedQueries) :
          Range(capturedQueries[i].queries) \subseteq Range(getAllQueries(interceptors, capturedQueries))
    /\ Len(savedFile) = 1 =>
          \A i \in 1..Len(capturedQueries) : Range(capturedQueries[i].queries) \subseteq Range(savedFile[1])

\* the same when every interceptor was started under a name of its own
C16_DistinctNames ==
    Len(interceptors.keys) = Len(capturedQueries) =>
        \A i \in 1..Len(capturedQueries) :
            Range(capturedQueries[i].queries) \subseteq Range(getAllQueries(interceptors, capturedQueries))

\* ------------------------------------------------------------------------
\* detectCircularDependencies and the simple cycles of the FK graph
\* ------------------------------------------------------------------------
\* the simple directed cycles of the FK graph between different tables of
\* the set: each a list of distinct tables, every one referencing the next
\* and the last referencing the first
SimpleCycles ==
    UNION { {c \in [1..n -> Tables] :
                /\ \A i \in 1..n, j \in 1..n : c[i] = c[j] => i = j
                /\ \A i \in 1..n : FkEdge(c[i], c[(i % n) + 1])} : n \in 2..NumTables }

\* the closed path lists the tables of cycle c in their order, starting anywhere
IsRotation(path, c) ==
    /\ Len(path) = Len(c) + 1
    /\ \E k \in 0..(Len(c) - 1) :
          \A i \in 1..Len(path) : path[i] = c[((i - 1 + k) % Len(c)) + 1]

\* C17: detectCircularDependencies returns every distinct cycle path: each
\* simple directed cycle of the FK graph between different tables appears in
\* the result, up to rotation.
Cex_C17 ==
    pc = "resolved" =>
        \A c \in SimpleCycles : \E n \in 1..Len(circularDeps) : IsRotation(circularDeps[n], c)

\* ------------------------------------------------------------------------
\* The depth cap of fetchDependencies
\* ------------------------------------------------------------------------
\* the queue's next row sits at the depth cap or beyond
AtDepthCap == pc = "fetching" /\ toFetch # <<>> /\ Head(toFetch).depth >= MaxDepth

\* every fetched row has a depth between 1 and 10 and is kept in the result
FetchedWithinCap ==
    \A n \in 1..Len(issued) :
        /\ issued[n].depth \in 1..MaxDepth
        /\ issued[n].row # NoRow =>
              issued[n].row \in Range(RowsOf(result, issued[n].table))

\* a turn of the loop on a row at the cap examines no foreign key: nothing
\* is marked visited, fetched or queued; the row is only taken off the queue
\* and the loop goes on
CapStopsBranchOnly ==
    AtDepthCap =>
        /\ visited' = visited
        /\ issued' = issued
        /\ result' = result
        /\ toFetch' = Tail(toFetch)
        /\ pc' = "fetching"

\* C18: fetchDependencies never examines the foreign keys of a row whose
\* depth is 10 or more: every fetched row has a depth between 1 and 10, a
\* row fetched at depth 10 is kept in the result but not expanded, and
\* reaching the depth cap stops only that branch without aborting the run.
Thm_C18 == [](FetchedWithinCap) /\ [][CapStopsBranchOnly]_vars

\* a run that has returned with a row fetched at depth 10 in its result,
\* whose own reference was never followed
Wit_C18 ==
    /\ pc = "returned"
    /\ run = 1
    /\ \E n \in 1..Len(issued) :
          /\ issued[n].depth = MaxDepth
          /\ issued[n].row # NoRow
          /\ issued[n].row \in Range(RowsOf(result, "node"))
          /\ issued[n].row.parent_id # NULL
          /\ Holding(RowsOf(result, "node"), "id", issued[n].row.parent_id) = {}

\* ------------------------------------------------------------------------
\* Live-database queries that fail or find nothing
\* ------------------------------------------------------------------------
\* an enrichment turn whose lookup failed or found nothing leaves every
\* fragment as it was and moves on to the next fragment
MissLeavesFragment ==
    (pc = "enrich" /\ pc' # "capture" /\ ~merged'.hit) =>
        /\ rowsByTable' = rowsByTable
        /\ merged'.after = merged'.before
        /\ enrichAt' = nextFragment(rowsByTable, enrichAt[1], enrichAt[2] + 1)
        /\ pc' = IF enrichAt' = <<0, 0>> THEN "resolve" ELSE "enrich"

\* when the dependency fetch has returned, every non-null foreign key value
\* of every row of its result was processed: the referenced row is there, or
\* a SELECT was sent for it, answered or not
EveryFkProcessed ==
    (pc = "returned" /\ pool) =>
        \A tr \in RowsIn(result) : \A fk \in FksOf(tr[1]) :
            (fk.columnName \in DOMAIN tr[2] /\ tr[2][fk.columnName] # NULL) =>
                \/ Holding(RowsOf(result, fk.referencedTable), fk.referencedColumn,
                           tr[2][fk.columnName]) # {}
                \/ IssuedFor(fk.referencedTable, fk.referencedColumn, tr[2][fk.columnName]) # {}

\* a SELECT of the dependency fetch that returned no row added no row
MissingDependencySkipped ==
    (pc = "returned" /\ pool) =>
        \A n \in 1..Len(issued) :
            issued[n].row = NoRow =>
                Holding(RowsOf(result, issued[n].table), issued[n].column, issued[n].value) = {}

\* a call of extractInserts that has not returned has its next step to take,
\* whatever the database answered so far: a query to process, a fragment to
\* enrich, or one of the closing stages
NeverStuck ==
    /\ pc \in {"capture", "queries", "enrich", "resolve", "filter", "fetch", "returned"}
    /\ pc = "queries" => qi \in 1..Len(queries)
    /\ pc = "enrich" =>
          /\ enrichAt[1] \in 1..Len(rowsByTable.keys)
          /\ enrichAt[2] \in 1..Len(rowsByTable.vals[enrichAt[1]])
          /\ FindSchema(schemas, rowsByTable.keys[enrichAt[1]]) # 0

\* C13: a live-database query that fails or finds nothing during enrichment
\* or dependency fetching never aborts the run: the affected fragment is left
\* exactly as it was (or the missing dependency is skipped), every remaining
\* fragment and foreign key is still processed, and extractInserts returns a
\* result.
Thm_C13 ==
    /\ [][MissLeavesFragment]_vars
    /\ [](EveryFkProcessed /\ MissingDependencySkipped /\ NeverStuck)

\* a run that returned although one enrichment lookup failed, one dependency
\* SELECT went unanswered and another was answered
Wit_C13 ==
    /\ pc = "returned"
    /\ failing # <<0, 0>>
    /\ failing[1] <= Len(rowsByTable.keys)
    /\ FindSchema(schemas, rowsByTable.keys[failing[1]]) # 0
    /\ failing[2] <= Len(rowsByTable.vals[failing[1]])
    /\ \E n \in 1..Len(issued) : issued[n].row = NoRow
    /\ \E n \in 1..Len(issued) : issued[n].row # NoRow

\* ------------------------------------------------------------------------
\* The key of an enrichment lookup
\* ------------------------------------------------------------------------
\* the schema of the fragment just enriched, and the fragment before its lookup
EnrichedSchema == schemas[FindSchema(schemas, merged.table)]

\* the fragment has the column, null or not
Has(fragment, column) == column \in DOMAIN fragment

\* the fragment has every primary-key column of its table
HasWholePrimaryKey ==
    /\ Len(EnrichedSchema.primaryKeys) > 0
    /\ \A pk \in Range(EnrichedSchema.primaryKeys) : Has(merged.before, pk)

\* the unique indexes all of whose columns the fragment has
UsableUniqueIndexes ==
    {n \in 1..Len(EnrichedSchema.indexes) :
        /\ EnrichedSchema.indexes[n].isUnique
        /\ EnrichedSchema.indexes[n].columns # <<>>
        /\ \A c \in Range(EnrichedSchema.indexes[n].columns) : Has(merged.before, c)}

\* the non-null schema-declared columns of the fragment
NonNullDeclared ==
    {c \in Range(EnrichedSchema.columns) : Has(merged.before, c) /\ merged.before[c] # NULL}

\* enrichment visits the fragments in order and each of them once
LaterFragment(a, b) == b = <<0, 0>> \/ a[1] < b[1] \/ (a[1] = b[1] /\ a[2] < b[2])

OneLookupPerFragment == (pc = "enrich" /\ pc' # "capture") => LaterFragment(enrichAt, enrichAt')

KeyByPriority ==
    merged # NoMerge =>
        IF HasWholePrimaryKey
        THEN merged.statement.where = Range(EnrichedSchema.primaryKeys)
        ELSE IF UsableUniqueIndexes # {}
        THEN \E n \in UsableUniqueIndexes :
                /\ \A m \in UsableUniqueIndexes : n <= m
                /\ merged.statement.where = Range(EnrichedSchema.indexes[n].columns)
        ELSE IF NonNullDeclared # {}
        THEN merged.statement.where = NonNullDeclared
        ELSE merged.statement = NoStatement

\* C19: enrichment issues at most one query per fragment and chooses its key
\* in a fixed priority: equality on all primary-key columns when the fragment
\* has a value for each of them; otherwise on the columns of the first unique
\* index all of whose columns the fragment has; otherwise on every non-null
\* schema-declared column the fragment has; a fragment offering none of
\* these triggers no query.
Thm_C19 == [](KeyByPriority) /\ [][OneLookupPerFragment]_vars

\* a fragment of refs with a column of the non-unique index and the column
\* of the unique index was looked up by the unique index
Wit_C19 ==
    /\ merged.table = "refs"
    /\ Has(merged.before, "user_id")
    /\ Has(merged.before, "ref_id")
    /\ merged.statement.where = {"ref_id"}

\* ------------------------------------------------------------------------
\* Deferred parent lookups
\* ------------------------------------------------------------------------
Metadata == {"__parentLookups", "__parentData"}

\* the fragment still carries its pending metadata
Pending(fragment) == Metadata \subseteq DOMAIN fragment

\* fragment f agrees with the raw snapshot on every key they share that is
\* not null in the snapshot, and they share at least one
Agrees(snapshot, f) ==
    LET shared == {key \in DOMAIN snapshot \cap DOMAIN f : snapshot[key] # NULL}
    IN shared # {} /\ \A key \in shared : f[key] = snapshot[key]

\* the positions of the fragments of other tables that agree with the
\* snapshot of the child at <<t, i>>
ParentCandidates(t, i) ==
    {c \in UNION {{<<p, n>> : n \in 1..Len(rowsByTable.vals[p])} : p \in 1..Len(rowsByTable.keys) \ {t}} :
        Agrees(rowsByTable.vals[t][i]["__parentData"], rowsByTable.vals[c[1]][c[2]])}

FirstCandidate(t, i) ==
    CHOOSE c \in ParentCandidates(t, i) :
        \A d \in ParentCandidates(t, i) : c[1] < d[1] \/ (c[1] = d[1] /\ c[2] <= d[2])

\* the child columns that the lookups of the child at <<t, i>> take from parent
Copied(child, parent) ==
    {l \in Range(child["__parentLookups"]) : l[2] \in DOMAIN parent}

\* after is the fragment at <<t, i>> once resolution has run
ResolvedAs(t, i, after) ==
    LET child == rowsByTable.vals[t][i]
        kept == DOMAIN child \ Metadata
    IN IF ~Pending(child) THEN after = child
       ELSE IF ParentCandidates(t, i) = {}
       THEN after = [c \in kept |-> child[c]]
       ELSE LET parent == rowsByTable.vals[FirstCandidate(t, i)[1]][FirstCandidate(t, i)[2]]
                copied == Copied(child, parent)
            IN /\ DOMAIN after = kept \cup {l[1] : l \in copied}
               /\ \A l \in copied : after[l[1]] = parent[l[2]]
               /\ \A c \in kept \ {l[1] : l \in copied} : after[c] = child[c]

\* a fragment made from a mapping with parentLookups has, next to the
\* mapped column, only the lookups and the raw result row
CreatedPending ==
    JustProcessed =>
        \A e \in Range(emitted) :
            LET mapping == MapGet(effectiveMappings(lastQuery), e.resultColumn)
            IN mapping.parentLookups # <<>> =>
                  /\ e.fragment["__parentLookups"] = mapping.parentLookups
                  /\ e.fragment["__parentData"] = lastQuery.rows[e.row]
                  /\ \A l \in Range(mapping.parentLookups) : l[1] \notin DOMAIN e.fragment

\* resolution starts when enrichment has visited every fragment
AfterEnrichment == pc = "resolve" => enrichAt = <<0, 0>>

\* an enrichment turn keeps the metadata of its fragment
EnrichmentKeepsMetadata ==
    (pc = "enrich" /\ pc' # "capture" /\ Pending(merged'.before)) =>
        /\ Pending(merged'.after)
        /\ \A c \in Metadata : merged'.after[c] = merged'.before[c]

ResolutionStep ==
    (pc = "resolve" /\ pc' = "filter") =>
        /\ rowsByTable'.keys = rowsByTable.keys
        /\ \A t \in 1..Len(rowsByTable.keys) :
              /\ Len(rowsByTable'.vals[t]) = Len(rowsByTable.vals[t])
              /\ \A i \in 1..Len(rowsByTable.vals[t]) : ResolvedAs(t, i, rowsByTable'.vals[t][i])

\* C20: a fragment created from a mapping with parentLookups receives no
\* parent column at creation, only the raw result row as pending metadata;
\* deferred-lookup resolution runs after enrichment, searches only fragments
\* of other tables, uses the first fragment that agrees with the raw snapshot
\* on every shared non-null key and shares at least one key, copies the
\* requested parent columns into the child under the mapped names, and
\* discards the metadata.
Thm_C20 ==
    /\ [](CreatedPending /\ AfterEnrichment)
    /\ [][EnrichmentKeepsMetadata /\ ResolutionStep]_vars

\* a child fragment whose own enrichment lookup failed got its parent
\* column from the parent fragment, and lost its metadata
Wit_C20 ==
    /\ pc = "filter"
    /\ pool
    /\ Len(queries) = 1
    /\ failing = <<2, 1>>
    /\ Len(rowsByTable.keys) = 2
    /\ rowsByTable.keys[2] = "refs"
    /\ \E e \in Range(emitted) :
          /\ Pending(e.fragment)
          /\ rowsByTable.vals[2][1] =
                [ref_id |-> e.fragment.ref_id, user_id |-> e.fragment["__parentData"].id]

\* ------------------------------------------------------------------------
\* The overlay of WHERE-parameter bindings on the plain fragments
\* ------------------------------------------------------------------------
\* the tables of FROM and JOIN with their aliases
FromAndJoins(query) == {query.fromTable} \cup Range(query.joins)

\* the table a qualifier stands for: the table of the FROM/JOIN entry that
\* has it as alias, and the qualifier itself when it is no alias
ResolvesTo(query, qualifier) ==
    IF \E e \in FromAndJoins(query) : e.alias = qualifier /\ e.alias # ""
    THEN (CHOOSE e \in FromAndJoins(query) : e.alias = qualifier).tableName
    ELSE qualifier

\* the WHERE nodes "x.col = $k" of a parsed query with 1 <= k <= number of
\* parameters, by their position in the walk of the expression tree
EqualityBindings(query) ==
    IF ~query.parseOk THEN {}
    ELSE {n \in 1..Len(query.paramMappings) :
            /\ query.paramMappings[n].operator = "="
            /\ query.paramMappings[n].paramIndex \in 1..Len(query.params)}

\* those whose qualifier resolves to table
QualifiedBindings(query, table) ==
    {n \in EqualityBindings(query) :
        /\ query.paramMappings[n].table # ""
        /\ ResolvesTo(query, query.paramMappings[n].table) = table}

\* those without a qualifier, which the code counts for the FROM table
UnqualifiedBindings(query, table) ==
    {n \in EqualityBindings(query) :
        /\ query.paramMappings[n].table = ""
        /\ query.fromTable.tableName = table}

\* the overlay of a set of bindings: column -> bound parameter, the last
\* binding of a column deciding
OverlayOf(query, bindings) ==
    [col \in {query.paramMappings[n].column : n \in bindings} |->
        LET last == CHOOSE n \in bindings :
                        /\ query.paramMappings[n].column = col
                        /\ \A m \in bindings : query.paramMappings[m].column = col => m <= n
        IN query.params[query.paramMappings[last].paramIndex]]

\* the candidate tables of a query: those it names that the live schema has
CandidateTables(query) ==
    {table \in (IF query.parseOk THEN Range(query.referencedTables) ELSE {query.fallbackTable}) :
        \E n \in 1..Len(schemas) : schemas[n].tableName = table}

\* the fragment filed under table for result row r of the query just
\* processed: the plain fragments precede the fragments of the mappings
Filed(table, r) ==
    LET list == MapGet(rowsByTable, table)
    IN list[Len(list) - Len(EmittedFor(table)) - Len(lastQuery.rows) + r]

PlainFiled ==
    /\ JustProcessed
    /\ Len(lastQuery.rows) > 0

\* C21 as stated: for every candidate table T and every captured result
\* row, the fragment filed under T is the row with T's overlay applied, the
\* overlay holding col -> boundParameters[k-1] for exactly the nodes
\* x.col = $k whose qualifier x resolves to T.
Cex_C21 ==
    PlainFiled =>
        \A table \in CandidateTables(lastQuery), r \in 1..Len(lastQuery.rows) :
            Filed(table, r) =
                Assign(lastQuery.rows[r], OverlayOf(lastQuery, QualifiedBindings(lastQuery, table)))

\* C21: for every candidate table T and every captured result row, the
\* fragment filed under T is a copy of the row with T's overlay applied; the
\* overlay maps col to boundParameters[k-1] for exactly the equality nodes
\* col = $k with 1 <= k <= number of parameters whose qualifier resolves
\* through the FROM/JOIN aliases to T or, when the column reference has no
\* qualifier, for T the FROM table; no other table's fragments receive the
\* value.
Thm_C21 ==
    PlainFiled =>
        \A table \in CandidateTables(lastQuery), r \in 1..Len(lastQuery.rows) :
            /\ MapHas(rowsByTable, table)
            /\ Len(MapGet(rowsByTable, table)) >= Len(EmittedFor(table)) + Len(lastQuery.rows)
            /\ Filed(table, r) =
                  Assign(lastQuery.rows[r],
                         OverlayOf(lastQuery, QualifiedBindings(lastQuery, table)
                                              \cup UnqualifiedBindings(lastQuery, table)))

\* a join query with a binding on one of its two candidate tables: the
\* fragment of that table carries the parameter, the other table's does not
Wit_C21 ==
    /\ PlainFiled
    /\ \E t1, t2 \in CandidateTables(lastQuery) :
          /\ t1 # t2
          /\ \E n \in QualifiedBindings(lastQuery, t1) :
                LET col == lastQuery.paramMappings[n].column
                IN /\ col \notin DOMAIN lastQuery.rows[1]
                   /\ Filed(t1, 1)[col] = lastQuery.params[lastQuery.paramMappings[n].paramIndex]
                   /\ col \notin DOMAIN Filed(t2, 1)

\* ------------------------------------------------------------------------
\* Sibling bindings recovered from WHERE-clause parameters
\* ------------------------------------------------------------------------
\* the fragments the inferred mapping of an output column produced, the
\* mapping not being replaced by a manual one
FromInferredMapping(e) ==
    /\ MapHas(lastQuery.inferred, e.resultColumn)
    /\ MapGet(effectiveMappings(lastQuery), e.resultColumn)
           = MapGet(lastQuery.inferred, e.resultColumn)

C22_SiblingListed ==
    JustProcessed =>
        \A k \in 1..Len(lastQuery.inferred.keys) :
            LET key == lastQuery.inferred.keys[k]
                mapping == lastQuery.inferred.vals[k]
            IN key = baseColumn(key) \o "_THEN" =>
                  \A n \in QualifiedBindings(lastQuery, mapping.table) :
                      <<lastQuery.paramMappings[n].column,
                        ToString(lastQuery.params[lastQuery.paramMappings[n].paramIndex])>>
                          \in Range(mapping.siblings)

\* ------------------------------------------------------------------------
\* The value shape of the inferred mappings
\* ------------------------------------------------------------------------
ShapeOf(function) == IF function = "array_agg" THEN "array" ELSE "scalar"

\* the aggregates a mapping key can come from: the column's own function
\* for a plain aggregate, the descriptors of the branch for a CASE
SourceFunctions(key) ==
    IF key = FieldName THEN {caseColumn.aggregateFunction}
    ELSE {caseColumn.caseAggregates[d].aggregateFunction : d \in
            {d \in Descriptors : FieldName \o "_" \o caseColumn.caseAggregates[d].branch = key}}

\* C23: every mapping emitted for an aggregate output column with no
\* server-reported source table has valueShape collection exactly when the
\* aggregate function is array_agg and scalar when it is count, sum, avg,
\* min or max, for plain aggregates and for CASE branches alike.
Cex_C23 ==
    (pc = "mapped" /\ inferredMappings.tableID = 0) =>
        \A k \in 1..Len(inferredMappings.map.keys) :
            \E function \in SourceFunctions(inferredMappings.map.keys[k]) \cap AggregateFunctions :
                inferredMappings.map.vals[k].type = ShapeOf(function)

\* for a plain aggregate column the shape is as claimed: only array_agg
\* gets a mapping
C23_PlainAggregate ==
    (pc = "mapped" /\ caseExpr.type = "call") =>
        \A k \in 1..Len(inferredMappings.map.keys) :
            /\ caseColumn.aggregateFunction = "array_agg"
            /\ inferredMappings.map.vals[k].type = "array"

\* ------------------------------------------------------------------------
\* Termination of fetchDependencies
\* ------------------------------------------------------------------------
\* the largest number of foreign keys of a table: a turn of the loop queues
\* at most that many rows
MostFks ==
    CHOOSE m \in 0..MaxFks :
        /\ \A n \in 1..Len(schemas) : Len(schemas[n].foreignKeys) <= m
        /\ \E n \in 1..Len(schemas) : Len(schemas[n].foreignKeys) = m

\* the number of loop turns a queued row of the given depth can still
\* cause: its own and those of the rows fetched below it, down to the cap
RECURSIVE TurnsLeft(_)
TurnsLeft(depth) ==
    IF depth > MaxDepth THEN 0
    ELSE IF depth = MaxDepth THEN 1
    ELSE 1 + MostFks * TurnsLeft(depth + 1)

RECURSIVE SumTurns(_, _)
SumTurns(queue, n) ==
    IF n > Len(queue) THEN 0 ELSE TurnsLeft(queue[n].depth) + SumTurns(queue, n + 1)

\* a bound on the loop turns still to come; it does not depend on the
\* database content
Variant == SumTurns(toFetch, 1)

LoopTurn == pc = "fetching" /\ pc' = "fetching"

LoopExit == pc = "fetching" /\ pc' # "fetching"

\* C24: fetchDependencies terminates for every finite set of input rows and
\* every database content, FK data with a cycle of references and a chain of
\* references longer than the depth cap included: every turn of the loop
\* lowers a natural-number bound on the turns still to come, which is 0
\* exactly when the work queue is empty, and the call then returns its result.
Thm_C24 ==
    /\ [](pc = "fetching" => (Variant >= 0 /\ (Variant = 0 <=> toFetch = <<>>)))
    /\ [][LoopTurn => Variant' < Variant]_vars
    /\ [][LoopExit => (toFetch = <<>> /\ pc' = "returned" /\ result' = result)]_vars
    /\ []((pc = "fetching" /\ toFetch = <<>>) => ENABLED ReturnResult)

\* a call has returned after following the references of a cycle of rows
\* all the way round: shipment 1 -> node 3 -> node 4 -> node 2, whose
\* reference to node 3 is not followed again
Wit_C24 ==
    /\ pc = "returned"
    /\ toFetch = <<>>
    /\ db = CyclicDatabase
    /\ \E n \in 1..Len(issued) :
          issued[n].table = "node" /\ issued[n].value = 2 /\ issued[n].row # NoRow
    /\ refKey([referencedTable |-> "node", referencedColumn |-> "id"], 3) \in visited

\* ------------------------------------------------------------------------
\* topologicalSort with FKs that reference a table outside the schema set
\* ------------------------------------------------------------------------
\* the tables Kahn's algorithm left over, which topologicalSort reports as
\* circular dependencies and adds at the end
LeftOver == {t \in Tables : ~Includes(kahnSorted, t)}

\* C25: topologicalSort keeps dependency-first order among the schema's
\* tables even when some FK references a table that is not in the schema
\* set: for every FK from A to B with both in the set and no cycle among the
\* set's tables, B precedes A, and a table whose only unresolved reference
\* is to an absent table is not handled as a member of a cycle.
Cex_C25 ==
    (Sorted /\ ~HasCycle) =>
        /\ \A a \in Tables, b \in Tables :
              FkEdge(a, b) => IndexOf(order, b) < IndexOf(order, a)
        /\ LeftOver = {}

\* what does hold without a cycle: a table is left over only if it
\* references the absent table or, over FKs, a table that does
C25_LeftOverReachesAbsent ==
    (Sorted /\ ~HasCycle) =>
        \A t \in LeftOver : ExtTable \in ReachPlus(t)

\* ------------------------------------------------------------------------
\* sortRows and the rows it returns
\* ------------------------------------------------------------------------
\* how often a row occurs in a list
Occurrences(rows, row) == Cardinality({n \in 1..Len(rows) : rows[n] = row})

IsPermutation(s, t) ==
    /\ Len(s) = Len(t)
    /\ \A row \in Range(s) \cup Range(t) : Occurrences(s, row) = Occurrences(t, row)

\* generateSeeder, lines 1995-2003: one INSERT statement per row that
\* sortRows returned
InsertStatements == Len(sortedRows)

\* C26: sortRows returns a permutation of its input: every input row is
\* exactly once in the output, also with a composite primary key, with two
\* rows that share the value of the first primary-key column, and with a
\* parent cycle; hence the number of INSERT statements emitted for a
\* self-referencing table equals the number of its deduplicated rows.
Cex_C26 ==
    pc = "sorted" =>
        /\ IsPermutation(sortedRows, SortInput)
        /\ InsertStatements = Len(SortInput)

\* the rows with distinct values of the first primary-key column all come
\* back, a parent cycle or not
C26_DistinctFirstKey ==
    (/\ pc = "sorted"
     /\ Hierarchical
     /\ \A i, j \in 1..Len(SortInput) : i # j => SortInput[i].id # SortInput[j].id) =>
        IsPermutation(sortedRows, SortInput)

\* ------------------------------------------------------------------------
\* deduplicateTable and true duplicates
\* ------------------------------------------------------------------------
\* two rows are true duplicates: the same value in every key column, the
\* key columns being the primary-key columns or, without a primary key, the
\* columns of the row, which are then the columns of both rows
TrueDuplicate(r1, r2, pkColumns) ==
    IF Len(pkColumns) > 0 THEN SameKey(r1, r2, pkColumns)
    ELSE DOMAIN r1 = DOMAIN r2 /\ SameKey(r1, r2, SortedKeys(r1))

DedupInput == MapGet(rowsByTable, DedupTable)

\* C27: deduplicateTable drops a row only when an earlier row of the same
\* table is a true duplicate of it; rows with different PK value tuples, a
\* null versus a non-null key value, or (without PK) different column names
\* are never merged.
Cex_C27 ==
    (pc = "deduplicated" /\ schemas # <<>>) =>
        \A i \in 1..Len(DedupInput) :
            (\A j \in 1..(i - 1) : ~TrueDuplicate(DedupInput[j], DedupInput[i], schemas[1].primaryKeys))
                => Includes(MapGet(deduplicated, DedupTable), DedupInput[i])

\* with key values that are numbers, all present, the rows dropped are true
\* duplicates
C27_PlainKeyValues ==
    (/\ pc = "deduplicated" /\ HasPrimaryKey
     /\ \A i \in 1..Len(DedupInput) : \A c \in Range(schemas[1].primaryKeys) :
            c \in DOMAIN DedupInput[i] /\ DedupInput[i][c] \in {Num("1"), Num("2")}) =>
        \A i \in 1..Len(DedupInput) :
            (\A j \in 1..(i - 1) : ~TrueDuplicate(DedupInput[j], DedupInput[i], schemas[1].primaryKeys))
                => Includes(MapGet(deduplicated, DedupTable), DedupInput[i])

\* ------------------------------------------------------------------------
\* The merge of the dependency fetch into the run-wide map
\* ------------------------------------------------------------------------
\* the rows the dependency fetch of this step fetched for a table
FetchedFor(table) ==
    Cardinality({n \in 1..Len(issued') : issued'[n].table = table /\ issued'[n].row # NoRow})

\* Phase 3 has run its dependency fetch and merged the result
DependencyMerge ==
    /\ pc = "fetch" /\ pc' = "returned"
    /\ pool /\ Len(rowsByTable.keys) > 0

\* C28: merging the Dependency Fetcher's result back into the run-wide map
\* adds only the newly fetched rows: for every table, the number of
\* fragments after the merge equals the number before the dependency fetch
\* plus the number of rows fetched for that table; no fragment already
\* present is appended a second time.
Cex_C28 ==
    [][DependencyMerge =>
          \A table \in Range(rowsByTable'.keys) :
              Len(MapGet(rowsByTable', table)) = Len(RowsOf(rowsByTable, table)) + FetchedFor(table)]_vars

\* what the merge does: a table that had fragments ends with twice its
\* fragments and fetched rows, a table that had none with its fetched rows
C28_Doubled ==
    [][DependencyMerge =>
          \A table \in Range(rowsByTable'.keys) :
              Len(MapGet(rowsByTable', table)) =
                  IF MapHas(rowsByTable, table)
                  THEN 2 * (Len(MapGet(rowsByTable, table)) + FetchedFor(table))
                  ELSE FetchedFor(table)]_vars

\* ------------------------------------------------------------------------
\* fetchDependencies on a reused DependencyFetcher
\* ------------------------------------------------------------------------
\* the dependency rows a run fetched, by table
FetchedRows(selects) ==
    {<<selects[n].table, selects[n].row>> : n \in {n \in 1..Len(selects) : selects[n].row # NoRow}}

\* what fetchDependencies fetches for the extracted rows on a fetcher whose
\* visited set is empty, every SELECT being answered
FreshRun ==
    whileLoop([visited |-> {}, result |-> extracted, rowsByTable |-> extracted,
               toFetch |-> InitialQueue(extracted, 1), issued |-> <<>>, db |-> db], {})

\* every SELECT of the run that has returned was answered by the database
EveryFetchAnswered ==
    \A n \in 1..Len(issued) :
        issued[n].row = fetchRow(db, issued[n].table, issued[n].column, issued[n].value, TRUE)

\* C29: dependency fetching is repeatable on a reused instance: a second
\* fetchDependencies call on the same DependencyFetcher, given the same
\* input rows, schemas and database, fetches the same dependency rows as
\* the first call; the visited set left by an earlier run does not suppress
\* fetches in a later run.
Cex_C29 ==
    (pc = "returned" /\ EveryFetchAnswered) =>
        FetchedRows(issued) = FetchedRows(FreshRun.issued)

\* the first call on a new instance fetches these rows
C29_FirstCall ==
    (pc = "returned" /\ run = 1 /\ EveryFetchAnswered) =>
        FetchedRows(issued) = FetchedRows(FreshRun.issued)

\* ------------------------------------------------------------------------
\* The generate command, generate-command.ts lines 118-195: the loop over
\* the configured databases.  Each database with captured queries gets a
\* SchemaAnalyzer, whose constructor creates a connection pool
\* (schema-analyzer.ts, lines 11-21); generateSeeder receives
\* analyzer.getPool() and issues the enrichment lookups and the dependency
\* fetches on it.
\* ------------------------------------------------------------------------
MaxDatabases == 2
MaxLookups == 2

\* the pool of a database: not created yet, open, or ended by pool.end()
NoPool == "none"

\* the statements generateSeeder sends: the lookups of
\* enrichRowsWithCompleteData, then the SELECTs of fetchDependencies
LookupKinds == <<"enrichment", "dependency">>

InitCommand ==
    /\ pc = "config"
    /\ dbConfigs = <<>>
    /\ dbIndex = 0
    /\ pools = <<>>
    /\ poolQueries = <<>>
    /\ OutsideCommandIdle

\* one more database in the configuration; hasQueries tells whether the
\* captured data holds queries of it (lines 128-133)
ConfigureDatabase(hasQueries) ==
    /\ pc = "config"
    /\ Len(dbConfigs) < MaxDatabases
    /\ dbConfigs' = Append(dbConfigs, [hasQueries |-> hasQueries])
    /\ pools' = Append(pools, NoPool)
    /\ UNCHANGED <<pc, dbIndex, poolQueries, outsideCommand>>

\* line 118: the loop starts
GenerateCommand ==
    /\ pc = "config"
    /\ Len(dbConfigs) > 0
    /\ dbIndex' = 1
    /\ pc' = "database"
    /\ UNCHANGED <<dbConfigs, pools, poolQueries, outsideCommand>>

\* lines 118-133 and 194: the next database, skipped when it has no queries
ProcessDatabase ==
    /\ pc = "database"
    /\ IF dbIndex > Len(dbConfigs) THEN pc' = "complete" /\ dbIndex' = dbIndex
       ELSE IF ~dbConfigs[dbIndex].hasQueries THEN pc' = "database" /\ dbIndex' = dbIndex + 1
       ELSE pc' = "analyze" /\ dbIndex' = dbIndex
    /\ UNCHANGED <<dbConfigs, pools, poolQueries, outsideCommand>>

\* lines 139-150: new SchemaAnalyzer(dbConfig) and the reads of the schema
AnalyzeSchema ==
    /\ pc = "analyze"
    /\ pools' = [pools EXCEPT ![dbIndex] = "open"]
    /\ pc' = "close"
    /\ UNCHANGED <<dbConfigs, dbIndex, poolQueries, outsideCommand>>

\* SchemaAnalyzer.close, schema-analyzer.ts lines 236-238: this.pool.end()
close(state) == "ended"

\* line 152, await analyzer.close(), and the migration files, lines 160-176
CloseAnalyzer ==
    /\ pc = "close"
    /\ pools' = [pools EXCEPT ![dbIndex] = close(@)]
    /\ pc' = "seeder"
    /\ UNCHANGED <<dbConfigs, dbIndex, poolQueries, outsideCommand>>

\* the statements sent for the database being processed
SentFor(i) == SelectSeq(poolQueries, LAMBDA q : q.database = i)

\* lines 181-190, generateSeeder(..., analyzer.getPool(), ...): one more
\* statement on the analyzer's pool, lookups of the enrichment before the
\* SELECTs of the dependency fetch.  The statement is sent on the pool in
\* the state it has; both callers catch a rejection (seeder-generator.ts
\* lines 1593-1609, dependency-fetcher.ts lines 119-126).
SeederQuery(kind) ==
    /\ pc = "seeder"
    /\ kind \in Range(LookupKinds)
    /\ Len(SentFor(dbIndex)) < MaxLookups
    /\ kind = "enrichment" => \A n \in 1..Len(SentFor(dbIndex)) : SentFor(dbIndex)[n].kind = "enrichment"
    /\ poolQueries' = Append(poolQueries, [database |-> dbIndex, kind |-> kind, pool |-> pools[dbIndex]])
    /\ UNCHANGED <<pc, dbConfigs, dbIndex, pools, outsideCommand>>

\* generateSeeder returns, lines 190-194
SeederGenerated ==
    /\ pc = "seeder"
    /\ dbIndex' = dbIndex + 1
    /\ pc' = "database"
    /\ UNCHANGED <<dbConfigs, pools, poolQueries, outsideCommand>>

NextCommand ==
    \/ \E hasQueries \in BOOLEAN : ConfigureDatabase(hasQueries)
    \/ GenerateCommand
    \/ ProcessDatabase
    \/ AnalyzeSchema
    \/ CloseAnalyzer
    \/ \E kind \in {"enrichment", "dependency"} : SeederQuery(kind)
    \/ SeederGenerated

SpecCommand == InitCommand /\ [][NextCommand]_vars

\* C30: in the generate command, for each database every enrichment lookup
\* and every dependency fetch is issued on a connection pool that is still
\* open: the schema analyzer's pool is not closed before seeder generation
\* for that database has finished using it.
Cex_C30 ==
    /\ \A n \in 1..Len(poolQueries) : poolQueries[n].pool = "open"
    /\ \A i \in 1..Len(pools) : (pc = "seeder" /\ dbIndex = i) => pools[i] = "open"

\* every statement of seeder generation goes to the pool of its own
\* database, which the analyzer has ended
C30_PoolEnded ==
    \A n \in 1..Len(poolQueries) : poolQueries[n].pool = "ended"
====
